---------------------------- MODULE Spec2Model ----------------------------
(***************************************************************************)
(* A model of the ultradaw mastering chain (ai_modules/mastering_engine.py).*)
(*                                                                         *)
(* Samples are fixed-point integers: the float sample 1.0 is Scale.        *)
(* Filter coefficients, smoothing constants and linear gains are           *)
(* fixed-point integers in units of 1/CoefScale.  Decibel parameters are   *)
(* kept in tenths of a dB (-18.0 dB is -180).  The transcendental          *)
(* functions the code calls (sin, cos, exp, 10**x) are tabulated at the    *)
(* arguments the program uses; everything else is computed by the          *)
(* formulas of the source.                                                 *)
(***************************************************************************)
EXTENDS Integers, Sequences, FiniteSets, TLC

Scale == 1000
CoefScale == 10000

(***************************************************************************)
(* Integer helpers.                                                        *)
(***************************************************************************)
Abs(x) == IF x < 0 THEN -x ELSE x
Max2(a, b) == IF a < b THEN b ELSE a
Min2(a, b) == IF a < b THEN a ELSE b

\* n / d rounded to the nearest integer (d > 0), halves away from zero.
Round(n, d) == IF n >= 0 THEN (n + d \div 2) \div d ELSE -((-n + d \div 2) \div d)

RECURSIVE ISqrtSearch(_, _, _)
ISqrtSearch(n, lo, hi) ==
    IF lo >= hi THEN lo
    ELSE LET mid == (lo + hi + 1) \div 2
         IN  IF mid * mid <= n THEN ISqrtSearch(n, mid, hi)
                               ELSE ISqrtSearch(n, lo, mid - 1)

\* floor(sqrt(n)) for 0 <= n < 2^31
ISqrt(n) == ISqrtSearch(n, 0, 46340)

\* the array s with every element computed
Array(s) == s \o <<>>

Reverse(s) == Array([i \in 1..Len(s) |-> s[Len(s) + 1 - i]])

RECURSIVE SeqSum(_)
SeqSum(s) == IF s = <<>> THEN 0 ELSE Head(s) + SeqSum(Tail(s))

RECURSIVE SeqMax(_)
SeqMax(s) == IF Len(s) = 1 THEN s[1] ELSE Max2(Head(s), SeqMax(Tail(s)))

\* np.max(np.abs(audio)) of a non-empty integer buffer
Peak(audio) == SeqMax([i \in 1..Len(audio) |-> Abs(audio[i])])


(***************************************************************************)
(* Tabulated transcendental functions (values in units of 1/CoefScale).    *)
(***************************************************************************)
\* np.sin(2 * np.pi * freq / sample_rate)
SinW0(freq, sample_rate) ==
    CASE <<freq, sample_rate>> = <<100, 22050>> -> 285
      [] <<freq, sample_rate>> = <<250, 22050>> -> 712
      [] <<freq, sample_rate>> = <<1000, 22050>> -> 2811
      [] <<freq, sample_rate>> = <<4000, 22050>> -> 9086
      [] <<freq, sample_rate>> = <<8000, 22050>> -> 7591
      [] <<freq, sample_rate>> = <<100, 44100>> -> 142
      [] <<freq, sample_rate>> = <<250, 44100>> -> 356
      [] <<freq, sample_rate>> = <<1000, 44100>> -> 1420
      [] <<freq, sample_rate>> = <<4000, 44100>> -> 5396
      [] <<freq, sample_rate>> = <<8000, 44100>> -> 9086
      [] <<freq, sample_rate>> = <<100, 16000>> -> 393
      [] <<freq, sample_rate>> = <<250, 16000>> -> 980
      [] <<freq, sample_rate>> = <<1000, 16000>> -> 3827
      [] <<freq, sample_rate>> = <<4000, 16000>> -> 10000
      [] <<freq, sample_rate>> = <<8000, 16000>> -> 0
      [] <<freq, sample_rate>> = <<100, 11025>> -> 570
      [] <<freq, sample_rate>> = <<250, 11025>> -> 1420
      [] <<freq, sample_rate>> = <<1000, 11025>> -> 5396
      [] <<freq, sample_rate>> = <<4000, 11025>> -> 7591
      [] <<freq, sample_rate>> = <<8000, 11025>> -> -9883

\* np.cos(2 * np.pi * freq / sample_rate)
CosW0(freq, sample_rate) ==
    CASE <<freq, sample_rate>> = <<100, 22050>> -> 9996
      [] <<freq, sample_rate>> = <<250, 22050>> -> 9975
      [] <<freq, sample_rate>> = <<1000, 22050>> -> 9597
      [] <<freq, sample_rate>> = <<4000, 22050>> -> 4178
      [] <<freq, sample_rate>> = <<8000, 22050>> -> -6509
      [] <<freq, sample_rate>> = <<100, 44100>> -> 9999
      [] <<freq, sample_rate>> = <<250, 44100>> -> 9994
      [] <<freq, sample_rate>> = <<1000, 44100>> -> 9899
      [] <<freq, sample_rate>> = <<4000, 44100>> -> 8420
      [] <<freq, sample_rate>> = <<8000, 44100>> -> 4178
      [] <<freq, sample_rate>> = <<100, 16000>> -> 9992
      [] <<freq, sample_rate>> = <<250, 16000>> -> 9952
      [] <<freq, sample_rate>> = <<1000, 16000>> -> 9239
      [] <<freq, sample_rate>> = <<4000, 16000>> -> 0
      [] <<freq, sample_rate>> = <<8000, 16000>> -> -10000
      [] <<freq, sample_rate>> = <<100, 11025>> -> 9984
      [] <<freq, sample_rate>> = <<250, 11025>> -> 9899
      [] <<freq, sample_rate>> = <<1000, 11025>> -> 8420
      [] <<freq, sample_rate>> = <<4000, 11025>> -> -6509
      [] <<freq, sample_rate>> = <<8000, 11025>> -> -1526

\* 10 ** (gain / 40), gain in tenths of a dB
PowGain40(gain) ==
    CASE gain = 0 -> 10000
      [] gain = -1 -> 9943
      [] gain = 1 -> 10058
      [] gain = 10 -> 10593
      [] gain = 15 -> 10902
      [] gain = 20 -> 11220
      [] gain = 30 -> 11885
      [] gain = 35 -> 12232
      [] gain = 40 -> 12589

\* 10 ** (db / 20), db in tenths of a dB
DbToLinear(db) ==
    CASE db = -180 -> 1259
      [] db = -5 -> 9441
      [] db = 0 -> 10000
      [] db = 20 -> 12589
      [] db = 30 -> 14125

\* np.exp(-1 / n)
ExpDecay(n) ==
    CASE n = 110 -> 9910
      [] n = 220 -> 9955
      [] n = 441 -> 9977
      [] n = 2205 -> 9995
      [] n = 4410 -> 9998

\* int(seconds * sample_rate), the time given in milliseconds
TimeToSamples(ms, sample_rate) == (ms * sample_rate) \div 1000

(***************************************************************************)
(* scipy.signal.filtfilt(b, a, x) for second-order sections: odd extension *)
(* by padlen samples at both ends, a forward pass and a backward pass each *)
(* started in the steady state of its first sample (lfilter_zi), and the   *)
(* extension removed.  b and a are triples, a[1] = CoefScale.              *)
(***************************************************************************)
NTaps == 3
PadLen == 3 * NTaps

\* filtfilt raises ValueError unless len(x) > padlen
FiltFiltRaises(x) == Len(x) <= PadLen

\* one output sample of the difference equation, a[1] = CoefScale:
\* One step of the difference equation
\*   y0 = (b0 x0 + b1 x1 + b2 x2 - a1 y1 - a2 y2) / a0,   a0 = CoefScale.
\* Inputs are whole units; an output is kept as <<q, r>>, q units and r parts
\* in CoefScale of a unit, so that rounding does not build up in the feedback.
\* Every value is split as q * CoefScale + r so that no product leaves 32 bits.
BiquadStep(b, a, x0, x1, x2, y1, y2) ==
    LET Q(v) == v \div CoefScale
        R(v) == v % CoefScale
        units == b[1] * Q(x0) + b[2] * Q(x1) + b[3] * Q(x2)
                 - a[2] * Q(y1[1]) - a[3] * Q(y2[1])
        parts == b[1] * R(x0) + b[2] * R(x1) + b[3] * R(x2)
                 - a[2] * R(y1[1]) - a[3] * R(y2[1])
                 - Round(a[2] * y1[2], CoefScale) - Round(a[3] * y2[2], CoefScale)
    IN  <<units + (parts \div CoefScale), parts % CoefScale>>

\* <<q, r>> to the nearest unit
Nearest(y) == IF 2 * y[2] >= CoefScale THEN y[1] + 1 ELSE y[1]

RECURSIVE LFilterRec(_, _, _, _, _, _, _, _, _)
LFilterRec(b, a, x, i, x1, x2, y1, y2, acc) ==
    IF i > Len(x) THEN acc
    ELSE LET y == BiquadStep(b, a, x[i], x1, x2, y1, y2)
         IN  LFilterRec(b, a, x, i + 1, x[i], x1, y, y1, Append(acc, Nearest(y)))

\* lfilter(b, a, x, zi = lfilter_zi(b, a) * x[0]): the state before the first
\* sample is the steady state of the constant input x[0], whose output is
\* x[0] * sum(b) / sum(a)
LFilter(b, a, x) ==
    LET sumB == b[1] + b[2] + b[3]
        sumA == a[1] + a[2] + a[3]
        rest == (x[1] % sumA) * sumB
        y0 == <<(x[1] \div sumA) * sumB + (rest \div sumA),
                ((rest % sumA) * CoefScale) \div sumA>>
    IN  LFilterRec(b, a, x, 1, x[1], x[1], y0, y0, <<>>)

OddExt(x) ==
    LET n == Len(x)
    IN  [k \in 1..PadLen |-> 2 * x[1] - x[PadLen + 2 - k]]
        \o x
        \o [k \in 1..PadLen |-> 2 * x[n] - x[n - k]]

FiltFilt(b, a, x) ==
    LET ext == OddExt(x)
        fwd == LFilter(b, a, ext)
        bwd == Reverse(LFilter(b, a, Reverse(fwd)))
    IN  SubSeq(bwd, PadLen + 1, PadLen + Len(x))


(***************************************************************************)
(* Filter design (audio-EQ-cookbook biquads), normalised by a0.            *)
(* gain in tenths of a dB, q in tenths.  Each yields <<b, a>>.             *)
(***************************************************************************)
MulC(x, y) == Round(x * y, CoefScale)

Normalize(b0, b1, b2, a0, a1, a2) ==
    << <<Round(b0 * CoefScale, a0), Round(b1 * CoefScale, a0), Round(b2 * CoefScale, a0)>>,
       <<CoefScale, Round(a1 * CoefScale, a0), Round(a2 * CoefScale, a0)>> >>

\* alpha = np.sin(w0) / 2 * np.sqrt((A + 1/A) * (1/0.7 - 1) + 2)
ShelfAlpha(A, sinw0) ==
    LET inner == Round((A + Round(CoefScale * CoefScale, A)) * 3, 7) + 2 * CoefScale
    IN  Round(sinw0 * ISqrt(inner * CoefScale), 2 * CoefScale)

LowShelfCoeffs(freq, gain, sample_rate) ==
    LET A == PowGain40(gain)
        c == CosW0(freq, sample_rate)
        alpha == ShelfAlpha(A, SinW0(freq, sample_rate))
        s2 == Round(2 * ISqrt(A * CoefScale) * alpha, CoefScale)
        Ap1 == A + CoefScale
        Am1 == A - CoefScale
        b0 == MulC(A, Ap1 - MulC(Am1, c) + s2)
        b1 == 2 * MulC(A, Am1 - MulC(Ap1, c))
        b2 == MulC(A, Ap1 - MulC(Am1, c) - s2)
        a0 == Ap1 + MulC(Am1, c) + s2
        a1 == -2 * (Am1 + MulC(Ap1, c))
        a2 == Ap1 + MulC(Am1, c) - s2
    IN  Normalize(b0, b1, b2, a0, a1, a2)

PeakingCoeffs(freq, gain, q, sample_rate) ==
    LET A == PowGain40(gain)
        alpha == Round(SinW0(freq, sample_rate) * 10, 2 * q)
        b0 == CoefScale + MulC(alpha, A)
        b1 == -2 * CosW0(freq, sample_rate)
        b2 == CoefScale - MulC(alpha, A)
        a0 == CoefScale + Round(alpha * CoefScale, A)
        a1 == -2 * CosW0(freq, sample_rate)
        a2 == CoefScale - Round(alpha * CoefScale, A)
    IN  Normalize(b0, b1, b2, a0, a1, a2)

HighShelfCoeffs(freq, gain, sample_rate) ==
    LET A == PowGain40(gain)
        c == CosW0(freq, sample_rate)
        alpha == ShelfAlpha(A, SinW0(freq, sample_rate))
        s2 == Round(2 * ISqrt(A * CoefScale) * alpha, CoefScale)
        Ap1 == A + CoefScale
        Am1 == A - CoefScale
        b0 == MulC(A, Ap1 + MulC(Am1, c) + s2)
        b1 == -2 * MulC(A, Am1 + MulC(Ap1, c))
        b2 == MulC(A, Ap1 + MulC(Am1, c) - s2)
        a0 == Ap1 - MulC(Am1, c) + s2
        a1 == 2 * (Am1 - MulC(Ap1, c))
        a2 == Ap1 - MulC(Am1, c) - s2
    IN  Normalize(b0, b1, b2, a0, a1, a2)


(***************************************************************************)
(* Input buffers as the caller hands them over: a sample is a record       *)
(* [k, v]: k = "fin" a finite float of v/Scale; k = "tiny" a finite        *)
(* non-zero float of magnitude below 1e-10 and sign v; k = "nan", "pinf",  *)
(* "ninf" the non-finite floats.                                           *)
(***************************************************************************)
Fin(v) == [k |-> "fin", v |-> v]
Tiny == [k |-> "tiny", v |-> 1]
NaN == [k |-> "nan", v |-> 0]
PosInf == [k |-> "pinf", v |-> 0]
NegInf == [k |-> "ninf", v |-> 0]

IsFinite(s) == s.k \in {"fin", "tiny"}

\* np.nan_to_num(x, nan=0.0, posinf=0.0, neginf=0.0) of one sample
NanToNum(s) == IF IsFinite(s) THEN s ELSE Fin(0)

\* np.abs(x) in fixed-point units; a "tiny" sample is below one unit
RawAbs(s) == IF s.k = "fin" THEN Abs(s.v) ELSE 0

\* np.abs(x) < 1e-10: 1e-10 lies strictly between 0 and the unit 1/Scale
BelowSilence(s) == s.k = "tiny" \/ (s.k = "fin" /\ s.v = 0)

\* np.max(np.abs(audio)) of a sanitised non-empty buffer, in units
RawPeak(audio) == SeqMax([i \in 1..Len(audio) |-> RawAbs(audio[i])])

\* a validation without the silence test
NeverSilent(audio) == FALSE

\* np.max(np.abs(audio)) < 1e-10
IsSilent(audio) == \A i \in 1..Len(audio) : BelowSilence(audio[i])

PeakTarget == 950

\* a validation that leaves loud buffers as they are
Unscaled(s, peak) == s

\* audio / peak * 0.95 of one sample
ScaleSample(s, peak) ==
    IF s.k = "fin" THEN Fin(Round(Round(s.v * Scale, peak) * PeakTarget, Scale))
    ELSE s

\* _validate_input raises ValueError("Input audio is silent"); np.max of an
\* empty array raises ValueError too
ValidateRaises(audio) ==
    \/ Len(audio) = 0
    \/ IsSilent([i \in 1..Len(audio) |-> NanToNum(audio[i])])

\* _validate_input(audio) when it returns
ValidateInput(audio) ==
    LET clean == Array([i \in 1..Len(audio) |-> NanToNum(audio[i])])
        peak == RawPeak(clean)
    IN  IF peak > Scale
        THEN Array([i \in 1..Len(clean) |-> ScaleSample(clean[i], peak)])
        ELSE clean

\* the validated float buffer in fixed-point units
ToFixed(audio) == Array([i \in 1..Len(audio) |-> IF audio[i].k = "fin" THEN audio[i].v ELSE 0])

(***************************************************************************)
(* librosa.feature.spectral_centroid(y, sr)[0] and its np.mean: the        *)
(* magnitude-weighted mean frequency of the DFT bins 0..NFft/2 of each     *)
(* frame, averaged over the frames.  The model uses frames of NFft samples *)
(* (the last one zero-padded) and a rectangular window.                    *)
(***************************************************************************)
NFft == 16

\* 1000 * cos(2 * pi * j / NFft)
CosTab(j) ==
    LET t == <<1000, 924, 707, 383, 0, -383, -707, -924,
               -1000, -924, -707, -383, 0, 383, 707, 924>>
    IN  t[(j % NFft) + 1]

SinTab(j) == CosTab(j + 3 * (NFft \div 4))

\* sample n (0-based) of frame f (0-based), zero beyond the buffer
FrameSample(audio, f, n) ==
    IF f * NFft + n + 1 <= Len(audio) THEN audio[f * NFft + n + 1] ELSE 0

BinMagnitude(audio, f, bin) ==
    LET re == Round(SeqSum([n \in 1..NFft |->
                      FrameSample(audio, f, n - 1) * CosTab(bin * (n - 1))]), 1000)
        im == Round(SeqSum([n \in 1..NFft |->
                      FrameSample(audio, f, n - 1) * SinTab(bin * (n - 1))]), 1000)
    IN  ISqrt(re * re + im * im)

\* centroid of one frame in Hz; a frame of zero magnitude has centroid 0
FrameCentroid(audio, f, sample_rate) ==
    LET mags == [b \in 1..(NFft \div 2 + 1) |-> BinMagnitude(audio, f, b - 1)]
        total == SeqSum(mags)
        weighted == SeqSum([b \in 1..(NFft \div 2 + 1) |-> (b - 1) * mags[b]])
    IN  IF total = 0 THEN 0
        ELSE (((weighted * 100) \div total) * sample_rate) \div (NFft * 100)

SpectralCentroid(audio, sample_rate) ==
    LET frames == (Len(audio) + NFft - 1) \div NFft
    IN  SeqSum([f \in 1..frames |-> FrameCentroid(audio, f - 1, sample_rate)])
           \div frames

(***************************************************************************)
(* The EQ stage.  eq_params maps each band to [freq, gain, q]; gain in     *)
(* tenths of a dB and q in tenths.                                         *)
(***************************************************************************)
BandNames == {"low_shelf", "low_mid", "mid", "high_mid", "high_shelf"}

\* _init_eq_params
InitEqParams ==
    [low_shelf  |-> [freq |-> 100,  gain |-> 0, q |-> 7],
     low_mid    |-> [freq |-> 250,  gain |-> 0, q |-> 8],
     mid        |-> [freq |-> 1000, gain |-> 0, q |-> 10],
     high_mid   |-> [freq |-> 4000, gain |-> 0, q |-> 8],
     high_shelf |-> [freq |-> 8000, gain |-> 0, q |-> 7]]

DarkCentroid == 1000
BrightCentroid == 4000

\* an analysis that boosts the highs whatever the centroid
AlwaysBoost(params, audio, sample_rate) ==
    [params EXCEPT !.high_mid.gain = 15, !.high_shelf.gain = 20]

\* an analysis that adds its boosts to the gains it finds
AccumulatingBoost(params, audio, sample_rate) ==
    LET avg_centroid == SpectralCentroid(audio, sample_rate)
    IN  IF avg_centroid < DarkCentroid
        THEN [params EXCEPT !.high_mid.gain = Min2(@ + 15, 30),
                            !.high_shelf.gain = Min2(@ + 20, 40)]
        ELSE IF avg_centroid > BrightCentroid
             THEN [params EXCEPT !.low_mid.gain = Min2(@ + 10, 20)]
             ELSE params

\* an analysis with the two boosts exchanged
ExchangedBoost(params, audio, sample_rate) ==
    LET avg_centroid == SpectralCentroid(audio, sample_rate)
    IN  IF avg_centroid < DarkCentroid
        THEN [params EXCEPT !.low_mid.gain = 10]
        ELSE IF avg_centroid > BrightCentroid
             THEN [params EXCEPT !.high_mid.gain = 15, !.high_shelf.gain = 20]
             ELSE params

\* the analysis step of _apply_multiband_eq: the eq_params it leaves
EqAnalyze(params, audio, sample_rate) ==
    LET avg_centroid == SpectralCentroid(audio, sample_rate)
    IN  IF avg_centroid < DarkCentroid
        THEN [params EXCEPT !.high_mid.gain = 15, !.high_shelf.gain = 20]
        ELSE IF avg_centroid > BrightCentroid
             THEN [params EXCEPT !.low_mid.gain = 10]
             ELSE params

\* a band filter that runs from 0.1 dB on
BandActiveFromTenth(band) == Abs(band.gain) >= 1

\* abs(gain) > 0.1
BandActive(band) == Abs(band.gain) > 1

ApplyLowShelf(params, audio, sample_rate) ==
    IF BandActive(params.low_shelf)
    THEN LET c == LowShelfCoeffs(params.low_shelf.freq, params.low_shelf.gain, sample_rate)
         IN  FiltFilt(c[1], c[2], audio)
    ELSE audio

PeakingFilter(audio, sample_rate, band) ==
    LET c == PeakingCoeffs(band.freq, band.gain, band.q, sample_rate)
    IN  FiltFilt(c[1], c[2], audio)

PeakingBand(audio, sample_rate, band) ==
    IF BandActive(band) THEN PeakingFilter(audio, sample_rate, band) ELSE audio

ApplyPeakingFilters(params, audio, sample_rate) ==
    PeakingBand(PeakingBand(PeakingBand(audio, sample_rate, params.low_mid),
                            sample_rate, params.mid),
                sample_rate, params.high_mid)

ApplyHighShelf(params, audio, sample_rate) ==
    IF BandActive(params.high_shelf)
    THEN LET c == HighShelfCoeffs(params.high_shelf.freq, params.high_shelf.gain, sample_rate)
         IN  FiltFilt(c[1], c[2], audio)
    ELSE audio

\* a band filter is applied to a buffer filtfilt rejects
EqFilterRaises(params, bands, audio) ==
    /\ FiltFiltRaises(audio)
    /\ \E n \in bands : BandActive(params[n])


(***************************************************************************)
(* The compressor.  Times are in milliseconds, ratio in tenths.            *)
(***************************************************************************)
\* _init_compressor_params
InitCompressorParams ==
    [threshold |-> -180, ratio |-> 25, attack |-> 10, release |-> 100,
     knee |-> 30, makeup_gain |-> 20]

\* 10 ** (db / 20) in sample units
LinearAmp(db) == Round(DbToLinear(db) * Scale, CoefScale)

RECURSIVE SmoothRec(_, _, _, _, _)
SmoothRec(envelope, i, alpha_attack, alpha_release, acc) ==
    IF i > Len(envelope) THEN acc
    ELSE LET prev == acc[i - 1]
             alpha == IF envelope[i] > prev THEN alpha_attack ELSE alpha_release
         IN  SmoothRec(envelope, i + 1, alpha_attack, alpha_release,
                       Append(acc, Round(alpha * prev + (CoefScale - alpha) * envelope[i],
                                         CoefScale)))

\* smoothed_envelope of a non-empty buffer
SmoothedEnvelope(audio, params, engine_rate) ==
    LET envelope == Array([i \in 1..Len(audio) |-> Abs(audio[i])])
        alpha_attack == ExpDecay(TimeToSamples(params.attack, engine_rate))
        alpha_release == ExpDecay(TimeToSamples(params.release, engine_rate))
    IN  SmoothRec(envelope, 2, alpha_attack, alpha_release, <<envelope[1]>>)

\* a threshold of silence: every sample counts as above it
AboveSilence(env, params) == TRUE

\* smoothed_envelope > threshold
AboveThreshold(env, params) == env > LinearAmp(params.threshold)

\* smoothed_envelope < threshold / knee
BelowKnee(env, params) ==
    env * DbToLinear(params.knee) < LinearAmp(params.threshold) * CoefScale

\* a ratio of 1: the level above the threshold is kept
RatioOne(env, params) == env

\* (smoothed_envelope - threshold) / ratio + threshold
HardCompressed(env, params) ==
    LET threshold == LinearAmp(params.threshold)
    IN  Round((env - threshold) * 10, params.ratio) + threshold

\* smoothed_envelope + (1/ratio - 1) * (smoothed_envelope - threshold)**2
\*                     / (2 * threshold * (knee - 1))
SoftCompressed(env, params) ==
    LET threshold == LinearAmp(params.threshold)
        knee == DbToLinear(params.knee)
    IN  env + Round((10 - params.ratio) * (env - threshold) * (env - threshold) * CoefScale,
                    params.ratio * 2 * threshold * (knee - CoefScale))

\* a compressor whose ratio acts at every level, with no threshold and knee
HardEverywhere(env, params) ==
    IF env = 0 THEN Fin(CoefScale)
    ELSE Fin(Round(HardCompressed(env, params) * CoefScale, env))

\* numerator / smoothed_envelope as numpy divides floats: a quotient by zero
\* is +-inf or nan (with a RuntimeWarning), never an exception.  The value is
\* in units of 1/CoefScale.
EnvelopeQuotient(num, env) ==
    IF env # 0 THEN Fin(Round(num * CoefScale, env))
    ELSE IF num > 0 THEN PosInf
    ELSE IF num < 0 THEN NegInf
    ELSE NaN

\* gain_reduction of one sample after the two np.where selections: both
\* quotients exist for every sample, the masks pick one of them or the 1.0
\* of np.ones_like
GainReduction(env, params) ==
    LET above_threshold == AboveThreshold(env, params)
        knee_region == ~BelowKnee(env, params) /\ ~above_threshold
        first == IF above_threshold
                 THEN EnvelopeQuotient(HardCompressed(env, params), env)
                 ELSE Fin(CoefScale)
    IN  IF knee_region
        THEN EnvelopeQuotient(SoftCompressed(env, params), env)
        ELSE first

\* audio[i] * gain_reduction[i] * makeup_gain as a float: a finite sample
\* times +-inf is +-inf, zero times +-inf and anything times nan is nan
CompressedSample(x, gain, makeup_gain) ==
    IF IsFinite(gain) THEN Fin(MulC(MulC(x, gain.v), makeup_gain))
    ELSE IF gain.k = "nan" \/ x = 0 THEN NaN
    ELSE IF (x > 0) = (gain.k = "pinf") THEN PosInf
    ELSE NegInf

\* the floats _apply_compression(audio) returns for a non-empty buffer
CompressedFloats(audio, params, engine_rate) ==
    LET env == SmoothedEnvelope(audio, params, engine_rate)
        makeup_gain == DbToLinear(params.makeup_gain)
    IN  Array([i \in 1..Len(audio) |->
            CompressedSample(audio[i], GainReduction(env[i], params), makeup_gain)])

\* _apply_compression(audio) of a non-empty buffer, in fixed point
ApplyCompression(audio, params, engine_rate) ==
    ToFixed(CompressedFloats(audio, params, engine_rate))

\* smoothed_envelope[0] = envelope[0] raises IndexError on an empty buffer
CompressionRaises(audio) == Len(audio) = 0

(***************************************************************************)
(* The stereo enhancer.                                                    *)
(***************************************************************************)
StereoDelayMs == 1

\* stereo[0, delay_samples:] = audio[:-delay_samples];
\* stereo[0, :delay_samples] = audio[:delay_samples]
DelayedLeft(audio, delay_samples) ==
    Array([i \in 1..Len(audio) |->
        IF i <= delay_samples THEN audio[i] ELSE audio[i - delay_samples]])

EnhanceStereo(audio, engine_rate) ==
    LET delay_samples == TimeToSamples(StereoDelayMs, engine_rate)
        left == FiltFilt(<<10000, 0, 0>>, <<10000, -5000, 1000>>,
                         DelayedLeft(audio, delay_samples))
        right == FiltFilt(<<8000, -8000, 0>>, <<10000, -7000, 2000>>, audio)
    IN  Array([i \in 1..Len(audio) |-> Round(left[i] + right[i], 2)])

EnhanceStereoRaises(audio) == FiltFiltRaises(audio)

(***************************************************************************)
(* The harmonic exciter.                                                   *)
(***************************************************************************)
\* 1000 * np.tanh(u), u in hundredths: the Pade approximant
\* u (27 + u^2) / (27 + 9 u^2) up to |u| = 3, and +-1 beyond
Tanh(u) ==
    IF u >= 300 THEN 1000
    ELSE IF u <= -300 THEN -1000
    ELSE Round(u * (270000 + u * u) * 10, 270000 + 9 * u * u)

\* audio + 0.3 * (audio * (1 + 0.1 * np.tanh(audio * 3)) - audio)
ExciteSample(x) ==
    LET th == Tanh(Round(3 * x * 100, Scale))
        harmonic == x + Round(x * th, 10 * 1000)
    IN  x + Round(3 * (harmonic - x), 10)

ApplyHarmonicExcitation(audio) == Array([i \in 1..Len(audio) |-> ExciteSample(audio[i])])

(***************************************************************************)
(* The limiter.                                                            *)
(***************************************************************************)
\* _init_limiter_params
InitLimiterParams == [threshold |-> -5, release |-> 5, lookahead |-> 2]

\* np.max(np.abs(audio[i : min(i + lookahead_samples, len(audio))])), i 1-based
WindowPeak(audio, i, lookahead_samples) ==
    Peak(SubSeq(audio, i, Min2(i - 1 + lookahead_samples, Len(audio))))

\* current_peak > threshold, the threshold in units of 1/CoefScale
OverThreshold(current_peak, threshold) == current_peak * CoefScale > threshold * Scale

\* the gain the limiter applies at index i (1-based) when the window peak
\* exceeds the threshold, in units of 1/CoefScale
LimiterGain(i, current_peak, threshold, release_samples) ==
    LET gain_reduction == Round(threshold * Scale, current_peak)
        alpha == ExpDecay(release_samples)
    IN  IF i > 1
        THEN MulC(alpha, gain_reduction) + (CoefScale - alpha)
        ELSE gain_reduction

LimitSample(audio, i, threshold, release_samples, lookahead_samples) ==
    LET current_peak == WindowPeak(audio, i, lookahead_samples)
    IN  IF OverThreshold(current_peak, threshold)
        THEN MulC(audio[i], LimiterGain(i, current_peak, threshold, release_samples))
        ELSE audio[i]

\* _apply_limiting(audio)
ApplyLimiting(audio, params, engine_rate) ==
    LET threshold == DbToLinear(params.threshold)
        release_samples == TimeToSamples(params.release, engine_rate)
        lookahead_samples == TimeToSamples(params.lookahead, engine_rate)
    IN  Array([i \in 1..Len(audio) |->
            LimitSample(audio, i, threshold, release_samples, lookahead_samples)])


(***************************************************************************)
(* The loudness normaliser.  A loudness of L LUFS is kept as the mean      *)
(* square ms it is the logarithm of: L = -0.691 + 10 log10(ms + 1e-12),    *)
(* ms in units of 1/Scale^2, in which the 1e-12 of the code is 1e-6.       *)
(* target_lufs is in tenths of a LUFS.                                     *)
(***************************************************************************)
\* _k_weighting(audio, sample_rate)
KWeighting(audio) ==
    LET audio_pre == FiltFilt(<<15351, -26917, 11984>>, <<10000, -16907, 7325>>, audio)
    IN  FiltFilt(<<10000, -20000, 10000>>, <<10000, -19900, 9901>>, audio_pre)

KWeightingRaises(audio) == FiltFiltRaises(audio)

\* np.mean(k_weighted ** 2)
MeanSquare(k_weighted) ==
    SeqSum([i \in 1..Len(k_weighted) |-> k_weighted[i] * k_weighted[i]])
        \div Len(k_weighted)

\* the mean square _calculate_lufs takes the logarithm of
CalculateLufs(audio) == MeanSquare(KWeighting(audio))

\* 10 ** ((target_lufs + 0.691) / 10): the mean square of loudness
\* target_lufs, in units of 1/Scale^2
TargetPower(target_lufs) ==
    CASE target_lufs = -140 -> 46677
      [] target_lufs = -160 -> 29451
      [] target_lufs = -230 -> 5876
      [] target_lufs = -90 -> 147605

GainScale == Scale

\* linear_gain = 10 ** ((target_lufs - current_lufs) / 20)
\*             = sqrt(TargetPower / (ms + 1e-12)), in units of 1/GainScale.
\* For ms >= 1 unit the 1e-12 is a millionth of a unit and is dropped.
LinearGain(ms, target_lufs) ==
    IF ms = 0
    THEN ISqrt(TargetPower(target_lufs) * 10000) * 10 * GainScale
    ELSE LET q == Round(TargetPower(target_lufs) * 10000, ms)
         IN  IF q < 20000000 THEN ISqrt(q * 100) ELSE ISqrt(q) * 10

\* audio * linear_gain of one sample
MulGain(x, linear_gain) ==
    IF linear_gain <= 200 * GainScale
    THEN Round(x * linear_gain, GainScale)
    ELSE x * Round(linear_gain, GainScale)

\* _normalize_loudness(audio, sample_rate)
NormalizeLoudness(audio, target_lufs) ==
    LET linear_gain == LinearGain(CalculateLufs(audio), target_lufs)
    IN  Array([i \in 1..Len(audio) |-> MulGain(audio[i], linear_gain)])


(***************************************************************************)
(* master_track run to completion on an engine whose state is given: the   *)
(* value a call returns and the eq_params it leaves when nothing else      *)
(* touches the engine while it runs.                                       *)
(***************************************************************************)
Failure(params) == [ok |-> FALSE, out |-> <<>>, eq |-> params]

\* the band gains a call leaves behind
GainsAfter(eq, buf, sample_rate) ==
    IF Len(buf) = 0 \/ ValidateRaises(buf) THEN eq
    ELSE EqAnalyze(eq, ToFixed(ValidateInput(buf)), sample_rate)

\* whether some stage raises
Raises(eq, buf, sample_rate) ==
    \/ Len(buf) = 0
    \/ ValidateRaises(buf)
    \/ EqFilterRaises(GainsAfter(eq, buf, sample_rate), BandNames, ToFixed(ValidateInput(buf)))
    \/ EnhanceStereoRaises(ToFixed(ValidateInput(buf)))

\* F applied to the value of x
Then(x, F(_)) == CHOOSE r \in {F(v) : v \in {x}} : TRUE

\* the stages of master_track after validation, each fed the array the one
\* before it returned
Stages(eq2, comp, lim, lufs, engine_rate, valid, sample_rate) ==
    Then(ApplyLowShelf(eq2, valid, sample_rate), LAMBDA a1 :
    Then(ApplyPeakingFilters(eq2, a1, sample_rate), LAMBDA a2 :
    Then(ApplyHighShelf(eq2, a2, sample_rate), LAMBDA equalized :
    Then(ApplyCompression(equalized, comp, engine_rate), LAMBDA compressed :
    Then(EnhanceStereo(compressed, engine_rate), LAMBDA widened :
    Then(ApplyHarmonicExcitation(widened), LAMBDA excited :
    Then(ApplyLimiting(excited, lim, engine_rate), LAMBDA limited :
    NormalizeLoudness(limited, lufs))))))))

MasterTrack(eq, comp, lim, lufs, engine_rate, buf, sample_rate) ==
    IF Raises(eq, buf, sample_rate) THEN Failure(GainsAfter(eq, buf, sample_rate))
    ELSE [ok |-> TRUE,
          out |-> Then(ToFixed(ValidateInput(buf)), LAMBDA valid :
                  Then(GainsAfter(eq, buf, sample_rate), LAMBDA eq2 :
                  Stages(eq2, comp, lim, lufs, engine_rate, valid, sample_rate))),
          eq |-> GainsAfter(eq, buf, sample_rate)]

(***************************************************************************)
(* State.                                                                  *)
(***************************************************************************)
VARIABLES
    \* MasteringEngine instances: the fields __init__ sets
    eq_params, compressor_params, limiter_params,
    self_target_lufs, self_target_peak, self_sample_rate,
    \* master_track calls, one per caller thread
    pc,            \* where the call is
    engine_of,     \* the instance the call runs on (self)
    caller_buf,    \* the caller's array, as it is now
    input,         \* the caller's array as it was when the call began
    rate,          \* the sample_rate argument
    local_audio,         \* the local variable audio once validation has returned
    aliased,       \* whether audio is the caller's array itself
    log,           \* the stages entered so far, in order
    applied,       \* the <<band, gain>> each band filter has read, in order
    result,        \* what the call returned
    eq_at_call,    \* the instance's eq_params when the call began
    eq_at_return,  \* the instance's eq_params when the call returned
    overlap,       \* the instances other calls ran on meanwhile
    started,       \* calls begun so far
    \* a single function applied to a single argument
    unit_fn, unit_in, unit_out,
    \* MainWindow and its two worker threads
    current_audio,   \* the loaded buffer, or NoAudio
    current_vocals,  \* the separated vocals, or NoAudio
    current_beats,   \* the beats the last generation delivered
    processing,      \* whether the progress bar is visible
    enabled,         \* the buttons that are enabled
    progress_value,  \* the value the progress bar shows
    thread_state,    \* per worker thread: where it is
    thread_audio,    \* per worker thread: the buffer it was constructed with
    mastered_audio,  \* the local variable of MasteringThread.run
    signals,         \* signals emitted by the workers and not yet delivered
    \* BeatGenerator.generate_beats
    beat_pc, vocal_tempo, beats, beat_result,
    \* Mixer
    tracks, mix_result,
    \* TrackWidget
    audio_data, is_playing, playback_position, timer_active,
    visualizer_position, clicks

engineVars == <<eq_params, compressor_params, limiter_params,
                self_target_lufs, self_target_peak, self_sample_rate>>
callVars == <<pc, engine_of, caller_buf, input, rate, local_audio, aliased, log,
              applied, result, eq_at_call, eq_at_return, overlap, started>>
unitVars == <<unit_fn, unit_in, unit_out>>
guiVars == <<current_audio, current_vocals, current_beats, processing, enabled,
             progress_value, thread_state, thread_audio, mastered_audio, signals>>
beatVars == <<beat_pc, vocal_tempo, beats, beat_result>>
mixerVars == <<tracks, mix_result>>
widgetVars == <<audio_data, is_playing, playback_position, timer_active,
                visualizer_position, clicks>>
appVars == <<guiVars, beatVars, mixerVars, widgetVars>>
vars == <<engineVars, callVars, unitVars, appVars>>

Engines == {1, 2}
Callers == {1, 2}
MaxCalls == 2

DefaultTargetLufs == -140
DefaultTargetPeak == -10
DefaultSampleRate == 22050

StageOrder == <<"validate", "eq", "compress", "stereo", "excite", "limit", "normalize">>

NoResult == [ok |-> FALSE, out |-> <<>>]

Active(t) == pc[t] \notin {"idle", "done", "failed"}


(***************************************************************************)
(* The buffers and sample rates the callers pass.                          *)
(***************************************************************************)
BufLen == NFft

\* a constant level dc with the first sample raised by imp
PatternBuf(n, dc, imp) == Array([i \in 1..n |-> Fin(dc + (IF i = 1 THEN imp ELSE 0))])

\* dark at 22050 Hz (centroid below 1000 Hz)
DarkIn == PatternBuf(BufLen, 500, 100)
\* neither dark nor bright at 22050 Hz, with a NaN for validation to replace
DirtyIn == [PatternBuf(BufLen, 500, 100) EXCEPT ![BufLen] = NaN]
\* nothing but non-finite, zero and sub-threshold samples
SilentIn == <<NaN, Fin(0), Tiny, NegInf>>
\* valid, but shorter than filtfilt accepts
ShortIn == <<Fin(500), Fin(-250), Fin(100)>>

Inputs == {DarkIn, DirtyIn, SilentIn, ShortIn}
SampleRates == {22050}

\* caller 1 keeps to the engine it constructed; caller 2 either shares that
\* engine or uses one of its own
EnginesOf(t) == IF t = 1 THEN {1} ELSE Engines

\* the gains an engine can hold: those of __init__ and what calls leave
MoreGains(G) == G \cup {GainsAfter(g, buf, r) : g \in G, buf \in Inputs, r \in SampleRates}
GainsReachable == MoreGains(MoreGains({InitEqParams}))

(***************************************************************************)
(* master_track, one action per step of a call.                            *)
(***************************************************************************)
NanToNumInPlace == FALSE   \* np.nan_to_num(audio, copy=False)
NanToNumCopies == TRUE   \* np.nan_to_num(copy=True), numpy's default

\* band gains kept in one dict that all instances share
SharedParams(e) == 1

\* the instance every access to self.eq_params of engine e reaches
ParamsOf(e) == e

Enter(t, stage) == log' = [log EXCEPT ![t] = Append(@, stage)]

Fail(t) ==
    /\ pc' = [pc EXCEPT ![t] = "failed"]
    /\ result' = [result EXCEPT ![t] = NoResult]
    /\ eq_at_return' = [eq_at_return EXCEPT ![t] = eq_params'[ParamsOf(engine_of'[t])]]

\* master_track(audio, sample_rate) is called on engine e (lines 36-38)
Call(t, e, buf, sample_rate) ==
    /\ ~Active(t)
    /\ started < MaxCalls
    /\ started' = started + 1
    /\ engine_of' = [engine_of EXCEPT ![t] = e]
    /\ caller_buf' = [caller_buf EXCEPT ![t] = buf]
    /\ input' = [input EXCEPT ![t] = buf]
    /\ rate' = [rate EXCEPT ![t] = sample_rate]
    /\ local_audio' = [local_audio EXCEPT ![t] = <<>>]
    /\ aliased' = [aliased EXCEPT ![t] = TRUE]
    /\ log' = [log EXCEPT ![t] = <<>>]
    /\ applied' = [applied EXCEPT ![t] = <<>>]
    /\ eq_at_call' = [eq_at_call EXCEPT ![t] = eq_params[ParamsOf(e)]]
    /\ overlap' = [u \in Callers |->
                      IF u = t THEN {engine_of[v] : v \in {w \in Callers \ {t} : Active(w)}}
                      ELSE IF Active(u) THEN overlap[u] \cup {e}
                      ELSE overlap[u]]
    /\ UNCHANGED <<engineVars, unitVars, appVars>>
    /\ IF Len(buf) = 0
       THEN Fail(t)
       ELSE /\ pc' = [pc EXCEPT ![t] = "validate"]
            /\ result' = [result EXCEPT ![t] = NoResult]
            /\ UNCHANGED eq_at_return

\* audio = self._validate_input(audio)
Validate(t) ==
    /\ pc[t] = "validate"
    /\ Enter(t, "validate")
    /\ UNCHANGED <<engineVars, unitVars, appVars, engine_of, input, rate, applied,
                   eq_at_call, overlap, started>>
    /\ IF ValidateRaises(caller_buf[t])
       THEN /\ Fail(t)
            /\ UNCHANGED <<caller_buf, local_audio, aliased>>
       ELSE /\ local_audio' = [local_audio EXCEPT ![t] = ToFixed(ValidateInput(caller_buf[t]))]
            /\ caller_buf' = [caller_buf EXCEPT ![t] =
                   IF NanToNumCopies THEN @
                   ELSE [i \in 1..Len(@) |-> NanToNum(@[i])]]
            /\ aliased' = [aliased EXCEPT ![t] =
                   ~NanToNumCopies /\ RawPeak(caller_buf'[t]) <= Scale]
            /\ pc' = [pc EXCEPT ![t] = "eq"]
            /\ UNCHANGED <<result, eq_at_return>>

\* _apply_multiband_eq: the analysis and the writes to self.eq_params
EqAnalysis(t) ==
    /\ pc[t] = "eq"
    /\ Enter(t, "eq")
    /\ eq_params' = [eq_params EXCEPT ![ParamsOf(engine_of[t])] =
                        EqAnalyze(@, local_audio[t], rate[t])]
    /\ pc' = [pc EXCEPT ![t] = "eq_low_shelf"]
    /\ UNCHANGED <<compressor_params, limiter_params, self_target_lufs, self_target_peak,
                   self_sample_rate, unitVars, appVars, engine_of, caller_buf, input,
                   rate,
                   local_audio, aliased, applied, result, eq_at_call, eq_at_return,
                   overlap, started>>

\* band gains copied for the call when its own analysis ends
GainsSnapshot(t) == GainsAfter(eq_at_call[t], input[t], rate[t])

\* self.eq_params as a band filter of call t finds it when it runs
GainsSeenBy(t) == eq_params[ParamsOf(engine_of[t])]

\* one of _apply_low_shelf, _apply_peaking_filters, _apply_high_shelf: it
\* reads the gains of its bands from self.eq_params and filters
EqBands(t, at, bands, Filter(_, _, _), next) ==
    LET params == GainsSeenBy(t)
    IN  /\ pc[t] = at
        /\ applied' = [applied EXCEPT ![t] =
               @ \o [i \in 1..Len(bands) |-> <<bands[i], params[bands[i]].gain>>]]
        /\ UNCHANGED <<engineVars, unitVars, appVars, engine_of, caller_buf, input, rate,
                       log, eq_at_call, overlap, started>>
        /\ IF EqFilterRaises(params, {bands[i] : i \in 1..Len(bands)}, local_audio[t])
           THEN /\ Fail(t)
                /\ UNCHANGED <<local_audio, aliased>>
           ELSE /\ local_audio' = [local_audio EXCEPT ![t] = Filter(params, @, rate[t])]
                /\ aliased' = [aliased EXCEPT ![t] =
                       @ /\ \A i \in 1..Len(bands) : ~BandActive(params[bands[i]])]
                /\ pc' = [pc EXCEPT ![t] = next]
                /\ UNCHANGED <<result, eq_at_return>>

EqLowShelf(t) == EqBands(t, "eq_low_shelf", <<"low_shelf">>, ApplyLowShelf, "eq_peaking")
EqPeaking(t) == EqBands(t, "eq_peaking", <<"low_mid", "mid", "high_mid">>,
                        ApplyPeakingFilters, "eq_high_shelf")
EqHighShelf(t) == EqBands(t, "eq_high_shelf", <<"high_shelf">>, ApplyHighShelf, "compress")

\* a stage that replaces audio by a new array or raises
Stage(t, name, raises, out, next) ==
    /\ pc[t] = name
    /\ Enter(t, name)
    /\ UNCHANGED <<engineVars, unitVars, appVars, engine_of, caller_buf, input, rate,
                   applied, eq_at_call, overlap, started>>
    /\ IF raises
       THEN /\ Fail(t)
            /\ UNCHANGED <<local_audio, aliased>>
       ELSE /\ local_audio' = [local_audio EXCEPT ![t] = out]
            /\ aliased' = [aliased EXCEPT ![t] = FALSE]
            /\ pc' = [pc EXCEPT ![t] = next]
            /\ UNCHANGED <<result, eq_at_return>>

\* a chain in which stereo enhancement is left out
NextStageSkipping(name) ==
    CASE name = "compress" -> "excite"
      [] name = "stereo" -> "excite"
      [] name = "excite" -> "limit"
      [] name = "limit" -> "normalize"

\* the stage that follows each stage of master_track
NextStage(name) ==
    CASE name = "compress" -> "stereo"
      [] name = "stereo" -> "excite"
      [] name = "excite" -> "limit"
      [] name = "limit" -> "normalize"

\* audio = self._apply_compression(audio)
Compress(t) ==
    Stage(t, "compress", CompressionRaises(local_audio[t]),
          ApplyCompression(local_audio[t], compressor_params[engine_of[t]],
                           self_sample_rate[engine_of[t]]),
          NextStage("compress"))

\* audio = self._enhance_stereo(audio)
Stereo(t) ==
    Stage(t, "stereo", EnhanceStereoRaises(local_audio[t]),
          EnhanceStereo(local_audio[t], self_sample_rate[engine_of[t]]),
          NextStage("stereo"))

\* audio = self._apply_harmonic_excitation(audio)
Excite(t) ==
    Stage(t, "excite", FALSE, ApplyHarmonicExcitation(local_audio[t]), NextStage("excite"))

\* audio = self._apply_limiting(audio)
Limit(t) ==
    Stage(t, "limit", FALSE,
          ApplyLimiting(local_audio[t], limiter_params[engine_of[t]],
                        self_sample_rate[engine_of[t]]),
          NextStage("limit"))

\* audio = self._normalize_loudness(audio, sample_rate); return audio
NormalizeAndReturn(t) ==
    /\ pc[t] = "normalize"
    /\ Enter(t, "normalize")
    /\ UNCHANGED <<engineVars, unitVars, appVars, engine_of, caller_buf, input, rate,
                   applied, eq_at_call, overlap, started>>
    /\ IF KWeightingRaises(local_audio[t])
       THEN /\ Fail(t)
            /\ UNCHANGED <<local_audio, aliased>>
       ELSE /\ local_audio' = [local_audio EXCEPT ![t] =
                   NormalizeLoudness(@, self_target_lufs[engine_of[t]])]
            /\ aliased' = [aliased EXCEPT ![t] = FALSE]
            /\ pc' = [pc EXCEPT ![t] = "done"]
            /\ result' = [result EXCEPT ![t] = [ok |-> TRUE, out |-> local_audio'[t]]]
            /\ eq_at_return' = [eq_at_return EXCEPT ![t] =
                   eq_params[ParamsOf(engine_of[t])]]

\* a buffer attribute that is None, and one that holds an array
NoAudio == [loaded |-> FALSE, buf |-> <<>>]
Loaded(samples) == [loaded |-> TRUE, buf |-> samples]

\* MainWindow.__init__: nothing loaded, no worker started; of the buttons that
\* set_processing_state switches only Load is enabled
Workers == {"master", "beat"}
ProcessingButtons ==
    {"load", "clean_vocals", "separate_vocals", "generate_beats", "master", "save"}
InitMainWindow ==
    /\ current_audio = NoAudio
    /\ current_vocals = NoAudio
    /\ current_beats = <<>>
    /\ processing = FALSE
    /\ enabled = {"load"}
    /\ progress_value = 0
    /\ thread_state = [k \in Workers |-> "idle"]
    /\ thread_audio = [k \in Workers |-> NoAudio]
    /\ mastered_audio = NoAudio
    /\ signals = <<>>

\* no generate_beats call yet
NoBeats == [raised |-> FALSE, beats |-> <<>>]
InitBeatGenerator ==
    /\ beat_pc = "idle"
    /\ vocal_tempo = 0
    /\ beats = <<>>
    /\ beat_result = NoBeats

\* Mixer.__init__: no tracks
NoMix == [raised |-> FALSE, returned |-> FALSE, mixed |-> <<>>]
InitMixer ==
    /\ tracks = <<>>
    /\ mix_result = NoMix

\* TrackWidget.__init__: no audio, not playing, the timer created but not
\* started
InitTrackWidget ==
    /\ audio_data = NoAudio
    /\ is_playing = FALSE
    /\ playback_position = 0
    /\ timer_active = FALSE
    /\ visualizer_position = 0
    /\ clicks = 0

InitApp == InitMainWindow /\ InitBeatGenerator /\ InitMixer /\ InitTrackWidget

\* MasteringEngine() for every instance
InitEngines ==
    /\ eq_params = [e \in Engines |-> InitEqParams]
    /\ compressor_params = [e \in Engines |-> InitCompressorParams]
    /\ limiter_params = [e \in Engines |-> InitLimiterParams]
    /\ self_target_lufs = [e \in Engines |-> DefaultTargetLufs]
    /\ self_target_peak = [e \in Engines |-> DefaultTargetPeak]
    /\ self_sample_rate = [e \in Engines |-> DefaultSampleRate]

\* no call yet
InitCallers ==
    /\ pc = [t \in Callers |-> "idle"]
    /\ engine_of = [t \in Callers |-> 1]
    /\ caller_buf = [t \in Callers |-> <<>>]
    /\ input = [t \in Callers |-> <<>>]
    /\ rate = [t \in Callers |-> DefaultSampleRate]
    /\ local_audio = [t \in Callers |-> <<>>]
    /\ aliased = [t \in Callers |-> FALSE]
    /\ log = [t \in Callers |-> <<>>]
    /\ applied = [t \in Callers |-> <<>>]
    /\ result = [t \in Callers |-> NoResult]
    /\ eq_at_call = [t \in Callers |-> InitEqParams]
    /\ eq_at_return = [t \in Callers |-> InitEqParams]
    /\ overlap = [t \in Callers |-> {}]
    /\ started = 0

NoUnitResult == [raised |-> FALSE, out |-> <<>>, entry |-> InitEqParams, eq |-> InitEqParams]

Init ==
    /\ InitEngines
    /\ InitCallers
    /\ unit_fn = "none"
    /\ unit_in = <<>>
    /\ unit_out = NoUnitResult
    /\ InitApp

Next ==
    \E t \in Callers :
        \/ \E e \in EnginesOf(t), buf \in Inputs, sample_rate \in SampleRates :
               Call(t, e, buf, sample_rate)
        \/ Validate(t)
        \/ EqAnalysis(t)
        \/ EqLowShelf(t)
        \/ EqPeaking(t)
        \/ EqHighShelf(t)
        \/ Compress(t)
        \/ Stereo(t)
        \/ Excite(t)
        \/ Limit(t)
        \/ NormalizeAndReturn(t)

Spec == Init /\ [][Next]_vars

(***************************************************************************)
(* The stages one at a time: a stage method applied once to one buffer.    *)
(***************************************************************************)
MaxLen == 3

UnitSamples == {NaN, PosInf, Tiny, Fin(0), Fin(50), Fin(100), Fin(-500), Fin(2000)}
ShortBufs == UNION {[1..n -> UnitSamples] : n \in 1..MaxLen}
LongBufs ==
    {PatternBuf(BufLen, dc, imp) : dc \in {0, 50, 500}, imp \in {0, 100, 400, -1000}}
        \cup {DirtyIn}
UnitInputs == ShortBufs \cup LongBufs

\* a buffer of floats that are all finite
Numeric(buf) == \A i \in 1..Len(buf) : IsFinite(buf[i])

\* _apply_multiband_eq(audio, sample_rate) on an engine whose gains are g
EqStage(g, buf, sample_rate) ==
    LET eq2 == EqAnalyze(g, buf, sample_rate)
    IN  IF EqFilterRaises(eq2, BandNames, buf)
        THEN [raised |-> TRUE, out |-> <<>>, entry |-> g, eq |-> eq2]
        ELSE [raised |-> FALSE,
              out |-> ApplyHighShelf(eq2,
                        ApplyPeakingFilters(eq2,
                          ApplyLowShelf(eq2, buf, sample_rate), sample_rate),
                        sample_rate),
              entry |-> g, eq |-> eq2]

Returned(out) == [NoUnitResult EXCEPT !.out = out]
Raised == [NoUnitResult EXCEPT !.raised = TRUE]

Unit(fn, guard, outcome) ==
    /\ unit_fn = "none"
    /\ unit_in # <<>>
    /\ guard
    /\ unit_fn' = fn
    /\ unit_out' = outcome
    /\ UNCHANGED <<unit_in, engineVars, callVars, appVars>>

UnitValidate ==
    Unit("validate", TRUE,
         IF ValidateRaises(unit_in) THEN Raised ELSE Returned(ValidateInput(unit_in)))

\* eq_params is a plain attribute: gains a client has assigned, of exactly
\* 0.1 dB in magnitude
BoundaryGains ==
    {[InitEqParams EXCEPT !.mid.gain = 1],
     [InitEqParams EXCEPT !.mid.gain = -1, !.high_shelf.gain = 1]}
UnitGains == GainsReachable \cup BoundaryGains

UnitEq ==
    \E g \in UnitGains :
        Unit("eq", Numeric(unit_in) /\ Len(unit_in) = BufLen,
             EqStage(g, ToFixed(unit_in), DefaultSampleRate))

UnitCompress ==
    Unit("compress", Numeric(unit_in),
         Returned(ApplyCompression(ToFixed(unit_in), InitCompressorParams,
                                   DefaultSampleRate)))

UnitLimit ==
    Unit("limit", Numeric(unit_in),
         Returned(ApplyLimiting(ToFixed(unit_in), InitLimiterParams, DefaultSampleRate)))

UnitNormalize ==
    Unit("normalize", Numeric(unit_in),
         IF KWeightingRaises(ToFixed(unit_in)) THEN Raised
         ELSE Returned(NormalizeLoudness(ToFixed(unit_in), DefaultTargetLufs)))

\* the sample rates master_track is called with
DesignRates == {22050, 44100, 16000, 11025}

\* the normalised <<b, a>> the filter of band n is designed with
BandCoeffs(n, band, sample_rate) ==
    CASE n = "low_shelf" -> LowShelfCoeffs(band.freq, band.gain, sample_rate)
      [] n = "high_shelf" -> HighShelfCoeffs(band.freq, band.gain, sample_rate)
      [] OTHER -> PeakingCoeffs(band.freq, band.gain, band.q, sample_rate)

\* the coefficients a band filter computes before it calls filtfilt, for a
\* band whose gain makes the filter run
UnitDesign ==
    \E g \in GainsReachable, n \in BandNames, sample_rate \in DesignRates :
        /\ BandActive(g[n])
        /\ Unit("design", TRUE,
                Returned(<<n, sample_rate, BandCoeffs(n, g[n], sample_rate)>>))

\* the sample counts the time-based stages of one master_track call work
\* with: each stage takes them from self.sample_rate (engine_rate), the call's
\* sample_rate argument is handed to the EQ and to nothing else
StageTimes(comp, lim, engine_rate) ==
    [attack_samples |-> TimeToSamples(comp.attack, engine_rate),
     release_samples |-> TimeToSamples(comp.release, engine_rate),
     delay_samples |-> TimeToSamples(StereoDelayMs, engine_rate),
     limiter_release_samples |-> TimeToSamples(lim.release, engine_rate),
     lookahead_samples |-> TimeToSamples(lim.lookahead, engine_rate)]

\* master_track(audio, sample_rate) on engine e: the sample_rate it was given
\* and the sample counts its stages derive
UnitTimes ==
    \E e \in Engines, sample_rate \in DesignRates :
        Unit("times", Numeric(unit_in),
             Returned([sample_rate |-> sample_rate,
                       times |-> StageTimes(compressor_params[e], limiter_params[e],
                                            self_sample_rate[e])]))

\* the arguments MasteringEngine(target_lufs, target_peak) is given: the
\* defaults, and other floats
TargetLufsArgs == {DefaultTargetLufs, -230}
TargetPeakArgs == {DefaultTargetPeak, 0, 30}

\* MasteringEngine(target_lufs, target_peak): __init__ stores both arguments
\* as they are and builds the three parameter dicts
UnitConstruct ==
    \E e \in Engines, lufs \in TargetLufsArgs, peak \in TargetPeakArgs :
        /\ unit_fn = "none"
        /\ unit_fn' = "construct"
        /\ self_target_lufs' = [self_target_lufs EXCEPT ![e] = lufs]
        /\ self_target_peak' = [self_target_peak EXCEPT ![e] = peak]
        /\ self_sample_rate' = [self_sample_rate EXCEPT ![e] = DefaultSampleRate]
        /\ eq_params' = [eq_params EXCEPT ![e] = InitEqParams]
        /\ compressor_params' = [compressor_params EXCEPT ![e] = InitCompressorParams]
        /\ limiter_params' = [limiter_params EXCEPT ![e] = InitLimiterParams]
        /\ UNCHANGED <<callVars, unit_in, unit_out, appVars>>

InitUnit ==
    /\ InitEngines
    /\ InitCallers
    /\ unit_fn = "none"
    /\ unit_in \in UnitInputs
    /\ unit_out = NoUnitResult
    /\ InitApp

NextUnit ==
    \/ UnitValidate
    \/ UnitEq
    \/ UnitCompress
    \/ UnitLimit
    \/ UnitNormalize
    \/ UnitConstruct
    \/ UnitDesign
    \/ UnitTimes

SpecUnit == InitUnit /\ [][NextUnit]_vars



(***************************************************************************)
(* Properties of master_track.                                             *)
(***************************************************************************)
IsPrefix(s, t) == Len(s) <= Len(t) /\ \A i \in 1..Len(s) : s[i] = t[i]

\* the stage a call is in, or is about to enter, after its log so far
Position(t) ==
    IF pc[t] \in {"eq_low_shelf", "eq_peaking", "eq_high_shelf"} THEN "eq" ELSE pc[t]

\* C1: the stages of a call run in the order validate, eq, compress, stereo,
\* excite, limit, normalize, each once and one after the other: what has run
\* so far is always an initial part of that order, the stage a call is in is
\* the last one it has entered or the next one to enter, and a call that
\* returned a buffer has run all seven.
StagesInOrder ==
    \A t \in Callers :
        /\ IsPrefix(log[t], StageOrder)
        /\ pc[t] = "done" => log[t] = StageOrder /\ result[t].ok
        /\ Active(t) =>
              \/ Len(log[t]) < Len(StageOrder) /\ Position(t) = StageOrder[Len(log[t]) + 1]
              \/ Len(log[t]) > 0 /\ Position(t) = StageOrder[Len(log[t])]

StagesInOrderWitness ==
    \E t \in Callers : pc[t] = "done" /\ Len(log[t]) = 7 /\ Len(result[t].out) = BufLen

\* a sample that counts as nothing once non-finite values are zeroed
QuietSample(s) == s.k \in {"nan", "pinf", "ninf", "tiny"} \/ (s.k = "fin" /\ s.v = 0)
QuietBuffer(buf) == Len(buf) > 0 /\ \A i \in 1..Len(buf) : QuietSample(buf[i])

\* C2: a call whose buffer has a sanitised peak below 1e-10 fails in
\* validation: the validation step ends the call with no buffer returned and
\* the engines' parameters as they were, and a call that failed this way has
\* entered no stage but validation.
SilenceRejected ==
    /\ [][\A t \in Callers :
             (pc[t] = "validate" /\ pc'[t] # "validate" /\ QuietBuffer(caller_buf[t]))
                 => /\ pc'[t] = "failed"
                    /\ result'[t] = NoResult
                    /\ UNCHANGED engineVars]_vars
    /\ [](\A t \in Callers :
             (QuietBuffer(input[t]) /\ pc[t] # "validate")
                 => pc[t] = "failed" /\ log[t] = <<"validate">> /\ ~result[t].ok)

SilenceRejectedWitness ==
    \E t \in Callers :
        /\ pc[t] = "failed" /\ QuietBuffer(input[t]) /\ log[t] = <<"validate">>
        /\ \E e \in Engines : eq_params[e] # InitEqParams

\* master_track on an engine as constructed but for its band gains, tabulated
SoloTable ==
    {[gains |-> g, buf |-> buf, sample_rate |-> r,
      call |-> MasterTrack(g, InitCompressorParams, InitLimiterParams,
                           DefaultTargetLufs, DefaultSampleRate, buf, r)] :
        g \in GainsReachable, buf \in Inputs, r \in SampleRates}

Solo(g, buf, r) ==
    (CHOOSE row \in SoloTable :
        row.gains = g /\ row.buf = buf /\ row.sample_rate = r).call

\* what a call returns, and the gains it leaves, on an engine as constructed
FreshCall(buf, sample_rate) == Solo(InitEqParams, buf, sample_rate)

\* what call t returns, and the gains it leaves, when nothing else touches
\* its engine between its beginning and its end
SoloCall(t) == Solo(eq_at_call[t], input[t], rate[t])

\* no call writes an engine field other than the band gains
OnlyGainsChange ==
    \A e \in Engines :
        /\ compressor_params[e] = InitCompressorParams
        /\ limiter_params[e] = InitLimiterParams
        /\ self_target_lufs[e] = DefaultTargetLufs
        /\ self_sample_rate[e] = DefaultSampleRate

\* the <<band, gain>> pairs the band filters read under the gains eq
BandOrder == <<"low_shelf", "low_mid", "mid", "high_mid", "high_shelf">>
GainsRead(eq) == [i \in 1..Len(BandOrder) |-> <<BandOrder[i], eq[BandOrder[i]].gain>>]

\* C6: the output depends on the construction arguments, the buffer and the
\* sample rate only: every call that returns a buffer returns the buffer the
\* same call returns on an engine constructed with the same arguments that
\* has processed nothing before.
OutputIgnoresHistory ==
    \A t \in Callers :
        pc[t] = "done" => result[t].out = FreshCall(input[t], rate[t]).out

\* C7: a call never changes the caller's array, and a call that succeeds
\* returns an array that is not the caller's and has as many samples.
InputKeptOutputNew ==
    \A t \in Callers :
        /\ caller_buf[t] = input[t]
        /\ pc[t] = "done" =>
              /\ Len(result[t].out) = Len(input[t])
              /\ ~aliased[t]

InputKeptOutputNewWitness ==
    \E t \in Callers :
        /\ pc[t] = "done"
        /\ \E i \in 1..Len(input[t]) : ~IsFinite(input[t][i])
        /\ Len(result[t].out) = BufLen

\* C10: a call that has its instance to itself, whatever runs on other
\* instances meanwhile, reads the band gains, returns the result and leaves
\* the gains that it would running alone.
SeparateInstancesIsolated ==
    /\ OnlyGainsChange
    /\ \A t \in Callers :
          engine_of[t] \notin overlap[t] =>
              /\ applied[t] # <<>> => IsPrefix(applied[t], GainsRead(SoloCall(t).eq))
              /\ pc[t] = "failed" =>
                    /\ ~SoloCall(t).ok
                    /\ ~result[t].ok
                    /\ eq_at_return[t] = SoloCall(t).eq
              /\ pc[t] = "done" =>
                    /\ result[t] = [ok |-> TRUE, out |-> SoloCall(t).out]
                    /\ eq_at_return[t] = SoloCall(t).eq
                    /\ applied[t] = GainsRead(SoloCall(t).eq)

SeparateInstancesIsolatedWitness ==
    \E t \in Callers :
        /\ pc[t] = "done"
        /\ overlap[t] # {}
        /\ engine_of[t] \notin overlap[t]
        /\ \E u \in Callers \ {t} :
               /\ engine_of[u] # engine_of[t]
               /\ pc[u] = "done"
               /\ eq_at_return[u] # eq_at_return[t]

\* the steps in which a call's band filters read gains
BandSteps == {"eq_low_shelf", "eq_peaking", "eq_high_shelf"}

\* the gains call t reads when the first two calls on its engine are t and u
\* and run one after the other, t first or u first
SerialGains(t, u) ==
    {GainsRead(GainsAfter(InitEqParams, input[t], rate[t])),
     GainsRead(GainsAfter(GainsAfter(InitEqParams, input[u], rate[u]), input[t], rate[t]))}

\* C11: calls that share an engine race on the band gains.  Every band filter
\* reads the gain the engine holds at the moment the filter runs, whichever
\* call wrote it last, and not the gains its own call's analysis left; so
\* there is an interleaving of two calls on one engine in which a call applies
\* a combination of gains that neither serial order of the two gives it (the
\* witness).
BandFiltersReadLiveGains ==
    [][\A t \in Callers :
          (pc[t] \in BandSteps /\ Len(applied'[t]) > Len(applied[t])) =>
              \A i \in (Len(applied[t]) + 1)..Len(applied'[t]) :
                  applied'[t][i][2] = eq_params[engine_of[t]][applied'[t][i][1]].gain]_vars

BandFiltersReadLiveGainsWitness ==
    \E t \in Callers, u \in Callers :
        /\ t # u
        /\ started = 2
        /\ pc[t] = "done"
        /\ pc[u] # "idle"
        /\ engine_of[u] = engine_of[t]
        /\ engine_of[t] \in overlap[t]
        /\ applied[t] \notin SerialGains(t, u)

\* C12: the buffer a call returns has a peak of at most the limiter's linear
\* threshold 10^(-0.5/20), give or take 0.002: the gain of the loudness
\* normaliser, applied after the limiter, leaves the peak there.
OutputPeakWithinLimit ==
    \A t \in Callers :
        pc[t] = "done" =>
            \A i \in 1..Len(result[t].out) :
                Abs(result[t].out[i]) <= LinearAmp(InitLimiterParams.threshold) + 2

\* C14: validation is the only stage that can fail: a call on a buffer of at
\* least one sample that ended with an error has entered no stage but
\* validation, and a call whose buffer validation accepted returns a buffer.
OnlyValidationFails ==
    \A t \in Callers :
        (pc[t] = "failed" /\ Len(input[t]) >= 1) =>
            /\ log[t] = <<"validate">>
            /\ ValidateRaises(input[t])

\* the values a band's gain takes: 0 as constructed, or what the analysis sets
AllowedGains(n) ==
    CASE n = "high_mid" -> {0, 15}
      [] n = "high_shelf" -> {0, 20}
      [] n = "low_mid" -> {0, 10}
      [] OTHER -> {0}

\* C16: over any sequence of calls the only engine state that changes is the
\* gain of high_mid, high_shelf and low_mid; each is 0 or the value the
\* analysis sets (1.5, 2.0, 1.0 dB), however often it is set; no step lowers a
\* gain; frequencies, Q values, the low_shelf and mid gains, the compressor
\* and limiter parameters and target_lufs stay as constructed.
GainsSetOnceAndKept ==
    /\ [](\A e \in Engines :
             /\ compressor_params[e] = InitCompressorParams
             /\ limiter_params[e] = InitLimiterParams
             /\ self_target_lufs[e] = DefaultTargetLufs
             /\ \A n \in BandNames :
                   /\ eq_params[e][n].freq = InitEqParams[n].freq
                   /\ eq_params[e][n].q = InitEqParams[n].q
                   /\ eq_params[e][n].gain \in AllowedGains(n))
    /\ [][\A e \in Engines, n \in BandNames :
             eq_params'[e][n].gain >= eq_params[e][n].gain]_vars

GainsSetOnceAndKeptWitness ==
    \E t \in Callers, u \in Callers :
        /\ t # u
        /\ engine_of[t] = engine_of[u]
        /\ pc[t] = "done" /\ pc[u] = "done"
        /\ input[t] = DarkIn /\ input[u] = DarkIn
        /\ eq_params[engine_of[t]].high_mid.gain = 15
        /\ eq_params[engine_of[t]].high_shelf.gain = 20

(***************************************************************************)
(* Properties of the stages.                                               *)
(***************************************************************************)
\* C13: every engine, as constructed and in every state it reaches, has a
\* target_peak below 0 dBFS.
TargetPeakNegative == \A e \in Engines : self_target_peak[e] < 0

SetMax(S) == CHOOSE m \in S : \A x \in S : x <= m

\* |x| of a float in units, a sample below 1e-10 counting as 0
Magnitude(s) == IF s.k = "fin" THEN Abs(s.v) ELSE 0
MaxMagnitude(buf) == SetMax({Magnitude(buf[i]) : i \in 1..Len(buf)})
NonFinite(s) == s.k \in {"nan", "pinf", "ninf"}

\* C3: when _validate_input returns, every NaN, +Inf and -Inf has become 0;
\* a buffer whose peak is at most 1.0 is otherwise returned as it is; a
\* louder one is scaled by 0.95/peak, so that its peak is 0.95; and what is
\* returned is finite with a peak of at most 1.0.
ValidateSanitisesAndScales ==
    (unit_fn = "validate" /\ ~unit_out.raised) =>
        LET out == unit_out.out
            peak == MaxMagnitude(unit_in)
        IN  /\ Len(out) = Len(unit_in)
            /\ \A i \in 1..Len(out) :
                  /\ out[i].k \in {"fin", "tiny"}
                  /\ Magnitude(out[i]) <= Scale
                  /\ NonFinite(unit_in[i]) => out[i] = Fin(0)
                  /\ peak <= Scale /\ ~NonFinite(unit_in[i]) => out[i] = unit_in[i]
                  /\ peak > Scale /\ unit_in[i].k = "fin" =>
                        /\ out[i].k = "fin"
                        /\ Abs(out[i].v * Scale - ((unit_in[i].v * Scale) \div peak) * 950)
                              <= 2 * Scale
            /\ peak > Scale => MaxMagnitude(out) = 950

ValidateSanitisesAndScalesWitness ==
    /\ unit_fn = "validate"
    /\ ~unit_out.raised
    /\ \E i \in 1..Len(unit_in) : NonFinite(unit_in[i])
    /\ \E i \in 1..Len(unit_in) : Magnitude(unit_in[i]) > Scale
    /\ \E i \in 1..Len(unit_in) : Magnitude(unit_out.out[i]) \in 1..949

\* C4: every sample the limiter returns is at most the linear threshold
\* 10^(threshold/20) in magnitude, give or take 0.002, at every index.
LimiterBounded ==
    unit_fn = "limit" =>
        \A i \in 1..Len(unit_out.out) :
            Abs(unit_out.out[i]) <= LinearAmp(InitLimiterParams.threshold) + 2

\* C5: the loudness measured on what _normalize_loudness returns for a
\* non-silent buffer is the target: the mean square _calculate_lufs takes the
\* logarithm of is the target's, to within a twentieth (0.2 dB).
LoudnessOnTarget ==
    (unit_fn = "normalize" /\ ~unit_out.raised /\ MaxMagnitude(unit_in) > 0) =>
        Abs(CalculateLufs(unit_out.out) - TargetPower(DefaultTargetLufs)) * 20
            <= TargetPower(DefaultTargetLufs)

\* the smoothed envelope the compressor follows on the buffer it was given
UnitEnvelope == SmoothedEnvelope(ToFixed(unit_in), InitCompressorParams, DefaultSampleRate)

\* the buffer times the linear makeup gain
MadeUp(buf) == [i \in 1..Len(buf) |-> MulC(buf[i], DbToLinear(InitCompressorParams.makeup_gain))]

\* C8 as stated: when the smoothed envelope never exceeds the linear
\* threshold T, the compressor returns makeup gain times its input.
TransparentUpToThreshold ==
    (unit_fn = "compress"
        /\ \A i \in 1..Len(unit_in) :
               UnitEnvelope[i] <= LinearAmp(InitCompressorParams.threshold))
    => unit_out.out = MadeUp(ToFixed(unit_in))

\* C8, amended: when the smoothed envelope stays below T/K at every sample,
\* K the linear knee width, the compressor returns makeup gain times its input.
TransparentBelowKnee ==
    (unit_fn = "compress"
        /\ \A i \in 1..Len(unit_in) :
               UnitEnvelope[i] * DbToLinear(InitCompressorParams.knee)
                   < LinearAmp(InitCompressorParams.threshold) * CoefScale)
    => unit_out.out = MadeUp(ToFixed(unit_in))

TransparentBelowKneeWitness ==
    /\ unit_fn = "compress"
    /\ \A i \in 1..Len(unit_in) :
           UnitEnvelope[i] * DbToLinear(InitCompressorParams.knee)
               < LinearAmp(InitCompressorParams.threshold) * CoefScale
    /\ \E i \in 1..Len(unit_in) : Abs(unit_out.out[i]) > Magnitude(unit_in[i])
    /\ \E i \in 1..Len(unit_in) : Magnitude(unit_in[i]) > LinearAmp(InitCompressorParams.threshold)

AllGainsZero(eq) == \A n \in BandNames : eq[n].gain = 0

\* C9 as stated: if all five gains are 0 when the EQ stage is entered, it
\* returns its input, whatever the buffer's spectral centroid.
IdentityEqAnyCentroid ==
    (unit_fn = "eq" /\ AllGainsZero(unit_out.entry)) =>
        ~unit_out.raised /\ unit_out.out = ToFixed(unit_in)

\* C9, amended: if all five gains are 0 when the EQ stage is entered and the
\* buffer's mean spectral centroid is between 1000 Hz and 4000 Hz inclusive,
\* the stage returns its input and leaves the gains at 0.
IdentityEqMidCentroid ==
    (unit_fn = "eq" /\ AllGainsZero(unit_out.entry)
        /\ SpectralCentroid(ToFixed(unit_in), DefaultSampleRate) \in 1000..4000)
    => /\ ~unit_out.raised
       /\ unit_out.out = ToFixed(unit_in)
       /\ unit_out.eq = unit_out.entry

IdentityEqMidCentroidWitness ==
    /\ unit_fn = "eq"
    /\ AllGainsZero(unit_out.entry)
    /\ SpectralCentroid(ToFixed(unit_in), DefaultSampleRate) \in 1000..4000
    /\ unit_out.out = ToFixed(unit_in)
    /\ \E i \in 1..Len(unit_in) : unit_in[i] # unit_in[1]

GainTuple(eq) == [i \in 1..Len(BandOrder) |-> eq[BandOrder[i]].gain]

\* the mean spectral centroid of the buffer the EQ stage was given
UnitCentroid == SpectralCentroid(ToFixed(unit_in), DefaultSampleRate)

\* C17: the analysis of the EQ stage sets high_mid to 1.5 dB and high_shelf to
\* 2.0 dB when the mean centroid is below 1000 Hz, low_mid to 1.0 dB when it
\* is above 4000 Hz, and nothing when it is from 1000 Hz to 4000 Hz; every
\* band it does not name keeps its gain.  From gains that are all 0 it leaves
\* (0, 0, 0, 1.5, 2.0), (0, 1.0, 0, 0, 0) and (0, 0, 0, 0, 0).
AnalysisSetsGains ==
    unit_fn = "eq" =>
        LET before == GainTuple(unit_out.entry)
            after == GainTuple(unit_out.eq)
        IN  /\ UnitCentroid < 1000 =>
                  after = <<before[1], before[2], before[3], 15, 20>>
            /\ UnitCentroid > 4000 =>
                  after = <<before[1], 10, before[3], before[4], before[5]>>
            /\ UnitCentroid \in 1000..4000 => after = before
            /\ AllGainsZero(unit_out.entry) =>
                  after = (IF UnitCentroid < 1000 THEN <<0, 0, 0, 15, 20>>
                           ELSE IF UnitCentroid > 4000 THEN <<0, 10, 0, 0, 0>>
                           ELSE <<0, 0, 0, 0, 0>>)
            /\ \A n \in BandNames :
                  /\ unit_out.eq[n].freq = unit_out.entry[n].freq
                  /\ unit_out.eq[n].q = unit_out.entry[n].q

AnalysisSetsGainsWitness ==
    /\ unit_fn = "eq"
    /\ UnitCentroid > 4000
    /\ GainTuple(unit_out.entry) = <<0, 0, 0, 15, 20>>
    /\ GainTuple(unit_out.eq) = <<0, 10, 0, 15, 20>>

\* the bands applied one after the other in band order, each to what the one
\* before it returned; a band is filtered when its gain is above 0.1 dB in
\* magnitude, or, unless strict, when it is exactly 0.1 dB
RECURSIVE BandChain(_, _, _, _, _)
BandChain(eq, buf, sample_rate, strict, i) ==
    IF i = 0 THEN buf
    ELSE LET n == BandOrder[i]
             c == BandCoeffs(n, eq[n], sample_rate)
             filtered == IF strict THEN Abs(eq[n].gain) > 1 ELSE Abs(eq[n].gain) >= 1
         IN  Then(BandChain(eq, buf, sample_rate, strict, i - 1), LAMBDA prev :
                 IF filtered THEN FiltFilt(c[1], c[2], prev) ELSE prev)

\* C18 as stated: the EQ stage applies the bands in the order low_shelf,
\* low_mid, mid, high_mid, high_shelf, each to the output of the one before;
\* a band is skipped exactly when |gain| < 0.1 dB, so that a band whose gain
\* is exactly 0.1 dB in magnitude is filtered.
BandsInOrderSkippedBelowTenth ==
    (unit_fn = "eq" /\ ~unit_out.raised) =>
        unit_out.out = BandChain(unit_out.eq, ToFixed(unit_in), DefaultSampleRate,
                                 FALSE, Len(BandOrder))

\* C18, amended: the bands are applied in that order, each to the output of
\* the one before; a band is skipped exactly when |gain| <= 0.1 dB and is
\* filtered when |gain| > 0.1 dB.
BandsInOrderSkippedUpToTenth ==
    (unit_fn = "eq" /\ ~unit_out.raised) =>
        unit_out.out = BandChain(unit_out.eq, ToFixed(unit_in), DefaultSampleRate,
                                 TRUE, Len(BandOrder))

BandsInOrderSkippedUpToTenthWitness ==
    /\ unit_fn = "eq"
    /\ ~unit_out.raised
    /\ unit_out.eq.mid.gain = -1
    /\ unit_out.eq.high_mid.gain = 15
    /\ unit_out.eq.high_shelf.gain = 20
    /\ unit_out.out # ToFixed(unit_in)
    /\ unit_out.out # BandChain(unit_out.eq, ToFixed(unit_in), DefaultSampleRate,
                                FALSE, Len(BandOrder))

\* the peak of the lookahead window that starts at sample i of the buffer the
\* limiter was given
UnitWindowPeak(i) ==
    WindowPeak(ToFixed(unit_in), i,
               TimeToSamples(InitLimiterParams.lookahead, DefaultSampleRate))

UnitOverThreshold(i) ==
    OverThreshold(UnitWindowPeak(i), DbToLinear(InitLimiterParams.threshold))

\* C19: at every index whose lookahead window peaks above the linear
\* threshold, index 0 and later ones alike, the limiter multiplies the sample
\* by exactly threshold/peak (to within 0.001 of a sample), unsmoothed.
AttackGainUnsmoothed ==
    unit_fn = "limit" =>
        \A i \in 1..Len(unit_in) :
            UnitOverThreshold(i) =>
                Abs(unit_out.out[i]
                    - Round(ToFixed(unit_in)[i] * DbToLinear(InitLimiterParams.threshold),
                            (CoefScale \div Scale) * UnitWindowPeak(i))) <= 1

\* the gain one release step after sample i - 1, whose gain was
\* threshold/peak: alpha times that gain plus (1 - alpha) times 1, in units of
\* 1/CoefScale
ReleasedGain(i) ==
    LET alpha == ExpDecay(TimeToSamples(InitLimiterParams.release, DefaultSampleRate))
        before == Round(DbToLinear(InitLimiterParams.threshold) * Scale,
                        UnitWindowPeak(i - 1))
    IN  MulC(alpha, before) + (CoefScale - alpha)

\* C20: once the window peak is back at or below the threshold after a sample
\* whose gain was reduced, the gain returns to unity gradually: the gain at
\* sample i is the one-pole release step from the gain at sample i - 1, with
\* coefficient exp(-1/(release * sample_rate)), and not 1 at once (to within
\* 0.001 of a sample).
ReleaseIsGradual ==
    unit_fn = "limit" =>
        \A i \in 2..Len(unit_in) :
            (UnitOverThreshold(i - 1) /\ ~UnitOverThreshold(i))
            => Abs(unit_out.out[i] - MulC(ToFixed(unit_in)[i], ReleasedGain(i))) <= 1


\* the floats the compressor returns for the buffer it was given
UnitCompressed ==
    CompressedFloats(ToFixed(unit_in), InitCompressorParams, DefaultSampleRate)

\* C21: at every sample whose smoothed envelope is exactly zero the
\* compressor's gain is 1 before the makeup gain, and no sample the compressor
\* returns is NaN or infinite: the quotients by the envelope that are not
\* finite are never the ones selected.
FiniteAtZeroEnvelope ==
    unit_fn = "compress" =>
        /\ \A i \in 1..Len(unit_in) :
               UnitEnvelope[i] = 0 =>
                   /\ GainReduction(UnitEnvelope[i], InitCompressorParams) = Fin(CoefScale)
                   /\ UnitCompressed[i] = Fin(MadeUp(ToFixed(unit_in))[i])
        /\ \A i \in 1..Len(unit_in) : IsFinite(UnitCompressed[i])

FiniteAtZeroEnvelopeWitness ==
    /\ unit_fn = "compress"
    /\ \E i \in 1..Len(unit_in) :
           /\ UnitEnvelope[i] = 0
           /\ ~IsFinite(EnvelopeQuotient(HardCompressed(0, InitCompressorParams), 0))
           /\ unit_out.out[i] = 0
    /\ \E i \in 1..Len(unit_in) : UnitEnvelope[i] > 0


\* the linear threshold T, the linear knee width K and the ratio r (in tenths)
\* of the default compressor, and its two smoothing coefficients
CompT == LinearAmp(InitCompressorParams.threshold)
CompK == DbToLinear(InitCompressorParams.knee)
CompR == InitCompressorParams.ratio
AttackCoef == ExpDecay(TimeToSamples(InitCompressorParams.attack, DefaultSampleRate))
ReleaseCoef == ExpDecay(TimeToSamples(InitCompressorParams.release, DefaultSampleRate))

\* the gain the three regimes give at envelope env, in units of 1/CoefScale
RegimeGain(env) ==
    IF env * CompK < CompT * CoefScale THEN CoefScale
    ELSE IF env > CompT
         THEN Round((CompT + Round((env - CompT) * 10, CompR)) * CoefScale, env)
         ELSE Round((env + Round((10 - CompR) * (env - CompT) * (env - CompT) * CoefScale,
                                 CompR * 2 * CompT * (CompK - CoefScale))) * CoefScale,
                    env)

\* one step of the envelope follower from the previous smoothed value
FollowerStep(prev, level) ==
    LET alpha == IF level > prev THEN AttackCoef ELSE ReleaseCoef
    IN  Round(alpha * prev + (CoefScale - alpha) * level, CoefScale)

\* C22: the envelope starts at |x[0]| and follows |x[i]| with the attack
\* coefficient when |x[i]| exceeds the previous smoothed value and with the
\* release coefficient otherwise; the gain of a sample is 1 when its envelope
\* is below T/K, (T + (env - T)/r)/env when it is above T and the quadratic
\* knee value in between; the output is the original sample times that gain
\* times the makeup gain.
GainByRegime ==
    unit_fn = "compress" =>
        LET x == ToFixed(unit_in)
        IN  /\ UnitEnvelope[1] = Abs(x[1])
            /\ \A i \in 2..Len(x) :
                   UnitEnvelope[i] = FollowerStep(UnitEnvelope[i - 1], Abs(x[i]))
            /\ \A i \in 1..Len(x) :
                   unit_out.out[i] =
                       MulC(MulC(x[i], RegimeGain(UnitEnvelope[i])),
                            DbToLinear(InitCompressorParams.makeup_gain))

GainByRegimeWitness ==
    /\ unit_fn = "compress"
    /\ Len(unit_in) = 3
    /\ UnitEnvelope[1] > CompT
    /\ RegimeGain(UnitEnvelope[1]) < CoefScale
    /\ Magnitude(unit_in[2]) > UnitEnvelope[1]
    /\ Magnitude(unit_in[3]) < UnitEnvelope[2]
    /\ UnitEnvelope[2] > UnitEnvelope[1]
    /\ UnitEnvelope[3] <= UnitEnvelope[2]
    /\ Abs(unit_out.out[3]) < MadeUp(ToFixed(unit_in))[3]


\* C23 as stated: within one master_track(audio, sample_rate) call the
\* compressor's attack and release, the stereo enhancer's 1 ms delay and the
\* limiter's release and lookahead are counted in samples at the sample_rate
\* the call was given.
TimesFromCallRate ==
    unit_fn = "times" =>
        unit_out.out.times =
            StageTimes(InitCompressorParams, InitLimiterParams, unit_out.out.sample_rate)


(***************************************************************************)
(* MainWindow: the handlers of its buttons run on the GUI thread, one at a *)
(* time; MasteringThread and BeatGenerationThread run beside it and reach  *)
(* the window through queued signals, delivered in the order emitted.      *)
(***************************************************************************)
\* the buttons set_processing_state leaves after it has run
ButtonsUntouched(on, buttons) == buttons

\* set_processing_state(processing): the buttons enabled afterwards
ButtonsAfter(on, buttons) ==
    IF on THEN buttons \ ProcessingButtons ELSE buttons \cup ProcessingButtons

\* set_processing_state(processing)
SetProcessingState(on) ==
    /\ processing' = on
    /\ enabled' = ButtonsAfter(on, enabled)

\* the array master_track returns, as floats
AsFloats(out) == Array([i \in 1..Len(out) |-> Fin(out[i])])

\* mastering_engine.master_track(audio, sample_rate) on the window's engine,
\* whose band gains are g
WindowMaster(g, samples) ==
    IF g \in GainsReachable /\ samples \in Inputs
    THEN Solo(g, samples, DefaultSampleRate)
    ELSE MasterTrack(g, InitCompressorParams, InitLimiterParams, DefaultTargetLufs,
                     DefaultSampleRate, samples, DefaultSampleRate)

\* the engine the window was constructed with
WindowEngine == 1

\* a signal of worker k, queued for the GUI thread
Signal(k, name, arg) == [sender |-> k, name |-> name, arg |-> arg]

\* the buffer mastering_complete leaves in current_audio when it stores the
\* worker's result
StoredAudio(kept, produced) == produced

\* the buffer mastering_complete leaves in current_audio: the one it found
KeptAudio(kept, produced) == kept

\* load_audio: a file is chosen and read (lines 396-411); a cancelled dialog
\* or a failed read leaves the window as it was
LoadAudio ==
    /\ "load" \in enabled
    /\ \E samples \in Inputs : current_audio' = Loaded(samples)
    /\ enabled' = enabled \cup
           {"clean_vocals", "separate_vocals", "generate_beats", "master", "save"}
    /\ UNCHANGED <<current_vocals, current_beats, processing, progress_value,
                   thread_state, thread_audio, mastered_audio, signals>>
    /\ UNCHANGED <<engineVars, callVars, unitVars, beatVars, mixerVars, widgetVars>>

\* clean_vocals: the whole handler runs on the GUI thread; whether the
\* separator returns or raises, finally leaves the processing state
CleanVocals ==
    /\ "clean_vocals" \in enabled
    /\ current_audio.loaded
    /\ \/ \E cleaned \in Inputs : current_audio' = Loaded(cleaned)
       \/ UNCHANGED current_audio
    /\ processing' = FALSE
    /\ enabled' = ButtonsAfter(FALSE, ButtonsAfter(TRUE, enabled))
    /\ progress_value' = 0
    /\ UNCHANGED <<current_vocals, current_beats, thread_state, thread_audio,
                   mastered_audio, signals>>
    /\ UNCHANGED <<engineVars, callVars, unitVars, beatVars, mixerVars, widgetVars>>

\* separate_vocals: as clean_vocals, the result kept in current_vocals
SeparateVocals ==
    /\ "separate_vocals" \in enabled
    /\ current_audio.loaded
    /\ \/ \E vocals \in Inputs : current_vocals' = Loaded(vocals)
       \/ UNCHANGED current_vocals
    /\ processing' = FALSE
    /\ enabled' = ButtonsAfter(FALSE, ButtonsAfter(TRUE, enabled))
    /\ progress_value' = 0
    /\ UNCHANGED <<current_audio, current_beats, thread_state, thread_audio,
                   mastered_audio, signals>>
    /\ UNCHANGED <<engineVars, callVars, unitVars, beatVars, mixerVars, widgetVars>>

\* the part generate_beats and master_track share: enter the processing
\* state, construct worker k on a buffer and start it
StartWorker(k, source) ==
    /\ SetProcessingState(TRUE)
    /\ progress_value' = 0
    /\ thread_state' = [thread_state EXCEPT ![k] = "started"]
    /\ thread_audio' = [thread_audio EXCEPT ![k] = source]
    /\ UNCHANGED <<current_audio, current_vocals, current_beats, mastered_audio, signals>>
    /\ UNCHANGED <<engineVars, callVars, unitVars, beatVars, mixerVars, widgetVars>>

\* generate_beats: the vocals if there are any, otherwise the main audio
GenerateBeats ==
    /\ "generate_beats" \in enabled
    /\ current_audio.loaded
    /\ StartWorker("beat", IF current_vocals.loaded THEN current_vocals ELSE current_audio)

\* master_track of the window
MasterTrackClicked ==
    /\ "master" \in enabled
    /\ current_audio.loaded
    /\ StartWorker("master", current_audio)

\* run() begins: progress_updated.emit(10), then the work
WorkerBegins(k) ==
    /\ thread_state[k] = "started"
    /\ thread_state' = [thread_state EXCEPT ![k] = "working"]
    /\ signals' = Append(signals, Signal(k, "progress_updated", 10))
    /\ UNCHANGED <<current_audio, current_vocals, current_beats, processing, enabled,
                   progress_value, thread_audio, mastered_audio>>
    /\ UNCHANGED <<engineVars, callVars, unitVars, beatVars, mixerVars, widgetVars>>

\* MasteringThread.run: master_track returns or raises; the array it returns
\* stays in the local mastered_audio
MasteringWork ==
    /\ thread_state["master"] = "working"
    /\ LET call == WindowMaster(eq_params[WindowEngine], thread_audio["master"].buf)
       IN  /\ eq_params' = [eq_params EXCEPT ![WindowEngine] = call.eq]
           /\ IF call.ok
              THEN /\ mastered_audio' = Loaded(AsFloats(call.out))
                   /\ signals' = signals \o
                          <<Signal("master", "progress_updated", 100),
                            Signal("master", "mastering_complete", 0)>>
              ELSE /\ UNCHANGED mastered_audio
                   /\ signals' = Append(signals, Signal("master", "error_occurred", 0))
    /\ thread_state' = [thread_state EXCEPT !["master"] = "emitted"]
    /\ UNCHANGED <<current_audio, current_vocals, current_beats, processing, enabled,
                   progress_value, thread_audio>>
    /\ UNCHANGED <<compressor_params, limiter_params, self_target_lufs,
                   self_target_peak, self_sample_rate>>
    /\ UNCHANGED <<callVars, unitVars, beatVars, mixerVars, widgetVars>>

\* BeatGenerationThread.run: generate_beats returns three beats or raises
BeatWork ==
    /\ thread_state["beat"] = "working"
    /\ \/ signals' = signals \o
              <<Signal("beat", "progress_updated", 100),
                Signal("beat", "beats_generated", <<1, 2, 3>>)>>
       \/ signals' = Append(signals, Signal("beat", "error_occurred", 0))
    /\ thread_state' = [thread_state EXCEPT !["beat"] = "emitted"]
    /\ UNCHANGED <<current_audio, current_vocals, current_beats, processing, enabled,
                   progress_value, thread_audio, mastered_audio>>
    /\ UNCHANGED <<engineVars, callVars, unitVars, beatVars, mixerVars, widgetVars>>

\* the last signal of a run has been delivered: its worker has nothing more
\* to say
Handled == [thread_state EXCEPT ![Head(signals).sender] = "idle"]

\* update_progress
UpdateProgress ==
    /\ signals # <<>>
    /\ Head(signals).name = "progress_updated"
    /\ progress_value' = Head(signals).arg
    /\ signals' = Tail(signals)
    /\ UNCHANGED <<current_audio, current_vocals, current_beats, processing, enabled,
                   thread_state, thread_audio, mastered_audio>>
    /\ UNCHANGED <<engineVars, callVars, unitVars, beatVars, mixerVars, widgetVars>>

\* mastering_complete: log and leave the processing state
MasteringComplete ==
    /\ signals # <<>>
    /\ Head(signals).name = "mastering_complete"
    /\ SetProcessingState(FALSE)
    /\ current_audio' = KeptAudio(current_audio, mastered_audio)
    /\ signals' = Tail(signals)
    /\ thread_state' = Handled
    /\ UNCHANGED <<current_vocals, current_beats, progress_value, thread_audio,
                   mastered_audio>>
    /\ UNCHANGED <<engineVars, callVars, unitVars, beatVars, mixerVars, widgetVars>>

\* beats_generated: keep the beats and leave the processing state
BeatsGenerated ==
    /\ signals # <<>>
    /\ Head(signals).name = "beats_generated"
    /\ current_beats' = Head(signals).arg
    /\ SetProcessingState(FALSE)
    /\ signals' = Tail(signals)
    /\ thread_state' = Handled
    /\ UNCHANGED <<current_audio, current_vocals, progress_value, thread_audio,
                   mastered_audio>>
    /\ UNCHANGED <<engineVars, callVars, unitVars, beatVars, mixerVars, widgetVars>>

\* show_error: log the message and show it in a message box
ShowError ==
    /\ signals # <<>>
    /\ Head(signals).name = "error_occurred"
    /\ signals' = Tail(signals)
    /\ thread_state' = Handled
    /\ UNCHANGED <<current_audio, current_vocals, current_beats, processing, enabled,
                   progress_value, thread_audio, mastered_audio>>
    /\ UNCHANGED <<engineVars, callVars, unitVars, beatVars, mixerVars, widgetVars>>

InitGui ==
    /\ InitEngines
    /\ InitCallers
    /\ unit_fn = "none"
    /\ unit_in = <<>>
    /\ unit_out = NoUnitResult
    /\ InitApp

WorkerStep ==
    \/ \E k \in Workers : WorkerBegins(k)
    \/ MasteringWork
    \/ BeatWork

Deliver ==
    \/ UpdateProgress
    \/ MasteringComplete
    \/ BeatsGenerated
    \/ ShowError

NextGui ==
    \/ LoadAudio
    \/ CleanVocals
    \/ SeparateVocals
    \/ GenerateBeats
    \/ MasterTrackClicked
    \/ WorkerStep
    \/ Deliver

SpecGui == InitGui /\ [][NextGui]_vars

\* a started thread runs, and the event loop delivers every queued signal
SpecGuiFair == SpecGui /\ WF_vars(WorkerStep) /\ WF_vars(Deliver)


\* C24 as stated: whenever the window has started a worker and entered the
\* processing state it eventually leaves it again, the progress bar hidden
\* and the six buttons enabled, whether the worker succeeds or emits
\* error_occurred.
ProcessingEnds ==
    processing ~> (~processing /\ ProcessingButtons \subseteq enabled)

\* a worker that has been started and whose last signal is still to be handled
Pending(k) == thread_state[k] # "idle"

\* C25: at most one worker is inside its work at any time, and from the start
\* of a worker until its last signal has been handled the load, clean-vocals,
\* separate-vocals, generate-beats, master and export buttons are all
\* disabled; the engine is never inside master_track for two threads.
OneWorkerAtATime ==
    /\ Cardinality({k \in Workers : thread_state[k] = "working"}) <= 1
    /\ Cardinality({k \in Workers : Pending(k)}) <= 1
    /\ (\E k \in Workers : Pending(k)) => enabled \cap ProcessingButtons = {}

OneWorkerAtATimeWitness ==
    /\ thread_state["master"] = "working"
    /\ thread_state["beat"] = "idle"
    /\ current_beats = <<1, 2, 3>>
    /\ enabled \cap ProcessingButtons = {}

\* C26: from the start of a mastering run until its last signal has been
\* handled no step changes current_audio: the array master_track returned is
\* not stored in the window.
MasteringKeepsAudio ==
    [][(Pending("master") \/ Pending("master")') => current_audio' = current_audio]_vars

MasteringKeepsAudioWitness ==
    /\ ~Pending("master")
    /\ ~processing
    /\ progress_value = 100
    /\ mastered_audio.loaded
    /\ current_audio.loaded
    /\ mastered_audio # current_audio
    /\ thread_audio["master"] = current_audio


(***************************************************************************)
(* BeatGenerator.generate_beats and _select_tempo.  Tempos handed in are   *)
(* floats, kept in tenths of a BPM; the tempos handed out are whole BPM.   *)
(***************************************************************************)
\* self.tempos
StandardTempos ==
    <<80, 85, 90, 95, 100, 105, 110, 115, 120, 125, 130, 140, 150, 160, 170, 180>>

\* for i in range(3)
BeatCount == 3

SetMin(S) == CHOOSE m \in S : \A x \in S : m <= x

\* int(x) of a float given in tenths: truncation towards zero
IntOfTenths(x) == IF x >= 0 THEN x \div 10 ELSE -((-x) \div 10)

\* tempo_options, in tenths
TempoOptions(tempo) ==
    <<Max2(600, tempo - 50), tempo, Min2(2000, tempo + 50)>>

\* the last of the standard tempos nearest to selected
ClosestTempoLast(selected) ==
    LET best == SetMin({Abs(StandardTempos[j] - selected) : j \in 1..Len(StandardTempos)})
    IN  StandardTempos[CHOOSE i \in 1..Len(StandardTempos) :
            /\ Abs(StandardTempos[i] - selected) = best
            /\ \A j \in (i + 1)..Len(StandardTempos) :
                   Abs(StandardTempos[j] - selected) # best]

\* min(standard_tempos, key=lambda x: abs(x - selected)): the first element
\* of the list whose key is minimal
ClosestTempo(selected) ==
    LET best == SetMin({Abs(StandardTempos[j] - selected) : j \in 1..Len(StandardTempos)})
    IN  StandardTempos[CHOOSE i \in 1..Len(StandardTempos) :
            /\ Abs(StandardTempos[i] - selected) = best
            /\ \A j \in 1..(i - 1) : Abs(StandardTempos[j] - selected) # best]

\* _select_tempo(vocal_tempo, variation)
SelectTempo(tempo, variation) ==
    ClosestTempo(IntOfTenths(TempoOptions(tempo)[(variation % 3) + 1]))

\* the tempos _analyze_vocals can report: what librosa estimates, 0.0 when it
\* finds no beat, and the 120.0 of the fallback
MaxTempo == 215
TempoArgs == {10 * b + f : b \in 50..MaxTempo, f \in {0, 5}} \cup {0}

\* a failed call that hands back the beats generated before the failure
KeepsPartial(generated) == generated

\* what is left of the local list when an exception leaves generate_beats
AfterFailure(generated) == <<>>

\* generate_beats(vocal_track, prompt, style) is called; _analyze_vocals
\* reports a tempo (it catches its own exceptions)
BeatCall ==
    /\ beat_pc \in {"idle", "returned", "raised"}
    /\ \E tempo \in TempoArgs : vocal_tempo' = tempo
    /\ beat_pc' = "loop"
    /\ beats' = <<>>
    /\ beat_result' = NoBeats
    /\ UNCHANGED <<engineVars, callVars, unitVars, guiVars, mixerVars, widgetVars>>

\* one pass of the loop: prompt variant i, tempo variant i, musicgen.generate
\* and the quality score, appended as beat i + 1
BeatIteration ==
    /\ beat_pc = "loop"
    /\ Len(beats) < BeatCount
    /\ LET i == Len(beats)
       IN  beats' = Append(beats, [variation |-> i + 1,
                                   prompt |-> i % 3,
                                   tempo |-> SelectTempo(vocal_tempo, i)])
    /\ UNCHANGED <<beat_pc, vocal_tempo, beat_result>>
    /\ UNCHANGED <<engineVars, callVars, unitVars, guiVars, mixerVars, widgetVars>>

\* musicgen.generate raises in a pass: the except clause logs and re-raises
BeatRaise ==
    /\ beat_pc = "loop"
    /\ Len(beats) < BeatCount
    /\ beat_pc' = "raised"
    /\ beat_result' = [raised |-> TRUE, beats |-> AfterFailure(beats)]
    /\ UNCHANGED <<vocal_tempo, beats>>
    /\ UNCHANGED <<engineVars, callVars, unitVars, guiVars, mixerVars, widgetVars>>

\* return beats
BeatReturn ==
    /\ beat_pc = "loop"
    /\ Len(beats) = BeatCount
    /\ beat_pc' = "returned"
    /\ beat_result' = [raised |-> FALSE, beats |-> beats]
    /\ UNCHANGED <<vocal_tempo, beats>>
    /\ UNCHANGED <<engineVars, callVars, unitVars, guiVars, mixerVars, widgetVars>>

InitBeat == InitGui

NextBeat ==
    \/ BeatCall
    \/ BeatIteration
    \/ BeatRaise
    \/ BeatReturn

SpecBeat == InitBeat /\ [][NextBeat]_vars

\* C27: generate_beats returns exactly three beats, numbered 1, 2, 3 in that
\* order, beat i made with prompt variant i and tempo variant i, or it raises
\* and hands back none of the beats generated before the failure.
ThreeBeatsOrNone ==
    /\ beat_pc = "returned" =>
           /\ ~beat_result.raised
           /\ Len(beat_result.beats) = 3
           /\ \A i \in 1..3 :
                  /\ beat_result.beats[i].variation = i
                  /\ beat_result.beats[i].prompt = i - 1
                  /\ beat_result.beats[i].tempo = SelectTempo(vocal_tempo, i - 1)
    /\ beat_pc = "raised" => beat_result.raised /\ beat_result.beats = <<>>
    /\ beat_pc \in {"idle", "loop"} => beat_result = NoBeats

ThreeBeatsOrNoneWitness ==
    /\ beat_pc = "returned"
    /\ Len(beat_result.beats) = 3
    /\ beat_result.beats[1].tempo < beat_result.beats[2].tempo
    /\ beat_result.beats[2].tempo < beat_result.beats[3].tempo

\* the variation indices _select_tempo is asked for
Variations == 0..5

\* the candidate tempo of a variation, truncated to whole BPM
Candidate(v) ==
    IntOfTenths(IF v % 3 = 0 THEN Max2(600, vocal_tempo - 50)
                ELSE IF v % 3 = 1 THEN vocal_tempo
                ELSE Min2(2000, vocal_tempo + 50))

StandardSet == {StandardTempos[j] : j \in 1..Len(StandardTempos)}

\* C28: for every vocal tempo and variation, _select_tempo returns a standard
\* tempo nearest to the truncated candidate, the lower one of two equally
\* near, and the tempos of variations 0, 1, 2 do not decrease; the tempo of
\* each generated beat is the one selected for its index.
NearestStandardTempo ==
    /\ \A v \in Variations :
           LET r == SelectTempo(vocal_tempo, v)
           IN  /\ r \in StandardSet
               /\ \A s \in StandardSet :
                      \/ Abs(r - Candidate(v)) < Abs(s - Candidate(v))
                      \/ (Abs(r - Candidate(v)) = Abs(s - Candidate(v)) /\ r <= s)
    /\ SelectTempo(vocal_tempo, 0) <= SelectTempo(vocal_tempo, 1)
    /\ SelectTempo(vocal_tempo, 1) <= SelectTempo(vocal_tempo, 2)
    /\ \A i \in 1..Len(beats) : beats[i].tempo = SelectTempo(vocal_tempo, i - 1)

\* a call whose second candidate lies midway between two standard tempos
NearestStandardTempoWitness ==
    /\ beat_pc = "returned"
    /\ Candidate(1) = 135
    /\ beats[2].tempo = 130
    /\ beats[3].tempo = 140


(***************************************************************************)
(* Mixer: add_track and mix_tracks.  Samples are in units of 1/Scale,      *)
(* volumes and pan gains in units of 1/CoefScale, pan in tenths.           *)
(***************************************************************************)
MaxTracks == 2

\* the arrays, volumes and pans add_track is given
TrackAudios == {<<>>, <<500>>, <<800, -300>>, <<-900, 900, 100>>}
TrackVolumes == {CoefScale, 5000}
TrackPans == {0, 10, -5}

\* np.cos(pan * np.pi / 4)
PanGain(pan) ==
    CASE pan = 10 -> 7071
      [] pan = -10 -> 7071
      [] pan = 5 -> 9239
      [] pan = -5 -> 9239
      [] pan = 0 -> CoefScale

\* add_track(audio, name, volume, pan): the track is appended, not muted
AddTrack ==
    /\ Len(tracks) < MaxTracks
    /\ \E samples \in TrackAudios, volume \in TrackVolumes, pan \in TrackPans :
           tracks' = Append(tracks, [audio |-> samples, volume |-> volume,
                                     pan |-> pan, muted |-> FALSE])
    /\ mix_result' = NoMix
    /\ UNCHANGED <<engineVars, callVars, unitVars, guiVars, beatVars, widgetVars>>

\* a client sets track['muted'] = True on a track of mixer.tracks
MuteTrack ==
    /\ \E i \in 1..Len(tracks) :
           /\ ~tracks[i].muted
           /\ tracks' = [tracks EXCEPT ![i].muted = TRUE]
    /\ mix_result' = NoMix
    /\ UNCHANGED <<engineVars, callVars, unitVars, guiVars, beatVars, widgetVars>>

\* max(len(track['audio']) for track in self.tracks)
MaxLength(all) == SeqMax([i \in 1..Len(all) |-> Len(all[i].audio)])

\* what one track adds at sample i: its audio times volume, times the pan
\* gain when pan != 0.0, padded with zeros; nothing when it is muted
Contribution(track, i) ==
    IF track.muted \/ i > Len(track.audio) THEN 0
    ELSE LET scaled == MulC(track.audio[i], track.volume)
         IN  IF track.pan # 0 THEN MulC(scaled, PanGain(track.pan)) ELSE scaled

\* mixed after the loop over the tracks
Summed(all) ==
    Array([i \in 1..MaxLength(all) |->
        SeqSum([k \in 1..Len(all) |-> Contribution(all[k], i)])])

\* np.max(np.abs(mixed)) of an empty array raises ValueError
MixRaises(all) == all # <<>> /\ MaxLength(all) = 0

\* the 0.95 of the clipping guard, in sample units
MixCeiling == 950

\* mixed * (0.95 / max_val) when max_val > 0.95
Unclipped(mixed) ==
    LET max_val == Peak(mixed)
    IN  IF max_val > MixCeiling
        THEN Array([i \in 1..Len(mixed) |-> Round(mixed[i] * MixCeiling, max_val)])
        ELSE mixed

\* mix_tracks()
MixTracks ==
    /\ ~mix_result.returned /\ ~mix_result.raised
    /\ mix_result' =
           IF tracks = <<>> THEN [raised |-> FALSE, returned |-> TRUE, mixed |-> <<>>]
           ELSE IF MixRaises(tracks)
                THEN [raised |-> TRUE, returned |-> FALSE, mixed |-> <<>>]
                ELSE [raised |-> FALSE, returned |-> TRUE,
                      mixed |-> Unclipped(Summed(tracks))]
    /\ UNCHANGED tracks
    /\ UNCHANGED <<engineVars, callVars, unitVars, guiVars, beatVars, widgetVars>>

NextMixer ==
    \/ AddTrack
    \/ MuteTrack
    \/ MixTracks

SpecMixer == InitGui /\ [][NextMixer]_vars

\* the longest track, 0 without tracks
LongestTrack == IF tracks = <<>> THEN 0 ELSE MaxLength(tracks)

\* C29 as stated: after any sequence of add_track calls mix_tracks returns a
\* buffer as long as the longest track, empty without tracks, whose peak is
\* at most 0.95 and to which a muted track adds nothing.
MixReturnsBoundedBuffer ==
    (mix_result.returned \/ mix_result.raised) =>
        /\ mix_result.returned
        /\ Len(mix_result.mixed) = LongestTrack
        /\ \A i \in 1..Len(mix_result.mixed) : Abs(mix_result.mixed[i]) <= MixCeiling
        /\ (\A k \in 1..Len(tracks) : tracks[k].muted) =>
               \A i \in 1..Len(mix_result.mixed) : mix_result.mixed[i] = 0


(***************************************************************************)
(* TrackWidget: play, stop and the 50 ms playback timer.  Positions are in *)
(* hundredths: the twentieth addition of 0.05 gives 1.0000000000000002 in  *)
(* double precision, the nineteenth 0.9500000000000003, so the comparison  *)
(* with 1.0 falls as it does for the exact sums.                           *)
(***************************************************************************)
\* self.playback_position += 0.05
PositionStep == 5

\* the 1.0 that update_playback compares the position with
FullPosition == 100

\* the button presses and set_audio calls the widget receives
MaxClicks == 3

\* the arrays set_audio is given
WidgetAudios == {ShortIn, DarkIn, <<Fin(500)>>}

\* a position that is taken for the end only at twice the length
EndsAtTwice(position) == position >= 2 * FullPosition

\* self.playback_position >= 1.0
ReachedEnd(position) == position >= FullPosition

\* set_audio(audio_data, sample_rate): keeps the array and resets the
\* visualizer
SetAudio ==
    /\ clicks < MaxClicks
    /\ clicks' = clicks + 1
    /\ \E samples \in WidgetAudios : audio_data' = Loaded(samples)
    /\ visualizer_position' = 0
    /\ UNCHANGED <<is_playing, playback_position, timer_active>>
    /\ UNCHANGED <<engineVars, callVars, unitVars, guiVars, beatVars, mixerVars>>

\* play(): nothing without audio; otherwise the sound is started, the
\* position reset and the timer (re)started
Play ==
    /\ clicks < MaxClicks
    /\ clicks' = clicks + 1
    /\ audio_data.loaded
    /\ is_playing' = TRUE
    /\ playback_position' = 0
    /\ timer_active' = TRUE
    /\ UNCHANGED <<audio_data, visualizer_position>>
    /\ UNCHANGED <<engineVars, callVars, unitVars, guiVars, beatVars, mixerVars>>

\* the body of stop()
Stopped ==
    /\ is_playing' = FALSE
    /\ timer_active' = FALSE
    /\ playback_position' = 0
    /\ visualizer_position' = 0

\* stop() from the stop button
Stop ==
    /\ clicks < MaxClicks
    /\ clicks' = clicks + 1
    /\ Stopped
    /\ UNCHANGED audio_data
    /\ UNCHANGED <<engineVars, callVars, unitVars, guiVars, beatVars, mixerVars>>

\* update_playback(), the slot of playback_timer.timeout
UpdatePlayback ==
    /\ timer_active
    /\ IF is_playing /\ audio_data.loaded
       THEN IF ReachedEnd(playback_position + PositionStep)
            THEN Stopped
            ELSE /\ playback_position' = playback_position + PositionStep
                 /\ visualizer_position' = playback_position + PositionStep
                 /\ UNCHANGED <<is_playing, timer_active>>
       ELSE UNCHANGED <<is_playing, playback_position, timer_active, visualizer_position>>
    /\ UNCHANGED <<audio_data, clicks>>
    /\ UNCHANGED <<engineVars, callVars, unitVars, guiVars, beatVars, mixerVars>>

NextWidget ==
    \/ SetAudio
    \/ Play
    \/ Stop
    \/ UpdatePlayback

SpecWidget == InitGui /\ [][NextWidget]_vars

\* a started QTimer keeps firing
SpecWidgetFair == SpecWidget /\ WF_vars(UpdatePlayback)

\* the widget at rest: position 0, timer stopped
AtRest == playback_position = 0 /\ ~timer_active

\* C30: playback that is left alone ends by itself, stop() being called by
\* the twentieth timer tick whatever the length of the audio; whenever
\* is_playing is false the position is 0 and the timer is stopped; the
\* position shown by the visualizer stays below 1.0.
PlaybackStops ==
    /\ [](~is_playing => AtRest)
    /\ [](is_playing =>
             /\ timer_active
             /\ playback_position < FullPosition
             /\ playback_position % PositionStep = 0)
    /\ [](visualizer_position < FullPosition)
    /\ (is_playing ~> ~is_playing)

\* playback one tick before its end
PlaybackStopsWitness ==
    /\ is_playing
    /\ playback_position = FullPosition - PositionStep
    /\ visualizer_position = playback_position
    /\ clicks = 2

=============================================================================
